---- MODULE Spec2Model ----
(***************************************************************************)
(* Verification model of the running-heatmap query engine.                 *)
(*                                                                         *)
(* The parts of the repository are modelled each with its own              *)
(* specification over its own group of variables:                          *)
(*   SpecCache  - the viewport cache and the network fetch path            *)
(*                (fetchAndUpdate, getCached, storeCache)                  *)
(*   SpecWorker - the worker-backed query path                             *)
(*                (SpatialIndex._queryWorker / _handleWorkerMessage and    *)
(*                spatial.worker.js)                                       *)
(*   SpecIndex  - the main-thread SpatialIndex (loadData, addRun,          *)
(*                getRunsForBounds)                                        *)
(*   SpecLod    - the geometry (level of detail) selection of the queries  *)
(*   SpecIndex009, SpecIndex010 - the SpatialIndex classes with the        *)
(*                earlier addRun and with session-only uploads (polygon    *)
(*                query, restarts)                                         *)
(*   SpecMirror - the SpatialIndex together with the worker                *)
(*   SpecGeoms  - the tiers addRun builds with simplify                    *)
(*   SpecZoom, SpecBbox, SpecSegments, SpecStaged - calls of getZoomLevel, *)
(*                bboxIntersects, segmentsIntersect and of the staged      *)
(*                polygon test, for each implementation                    *)
(*   SpecLasso, SpecLassoLive - the lasso selection of the web page        *)
(*                                                                         *)
(* Coordinates are integers.  A bbox is <<minLng, minLat, maxLng, maxLat>> *)
(* as in the source; map bounds are records west/south/east/north.         *)
(***************************************************************************)
EXTENDS Integers, Sequences, FiniteSets, TLC

VARIABLES
  \* ---- viewport cache / network path (fetchAndUpdate) ----
  view,             \* map.getBounds()
  zoom,             \* Math.floor(map.getZoom())
  caches,           \* zoom -> [bounds, data]
  cacheOrder,       \* sequence of zoom keys, most recently stored first
  lastCenter,       \* <<>> for null, else <<center>> of the last applied fetch
  lastZoom,         \* NoZoom for null, else zoom of the last applied fetch
  activeController, \* 0 for null, else the number of the latest request
  inflight,         \* requests in flight: fetch promises neither settled nor aborted
  displayed,        \* data of the map source 'runs' (set of activity ids)
  serverRuns,       \* the activities the /api/runs endpoint answers from
  moves,            \* number of moveend events handled so far
  useOrder,         \* history: cache keys, most recently used (stored or served) first
  storeOrder,       \* history: cache keys, most recently stored first
  lastOp,           \* history: what the last step did, whether it aborted a
                    \* request, and the key it evicted (NoZoom: none)
  \* ---- worker-backed query path ----
  runs,             \* worker: id -> [geoms, bbox]; meaningful once wLoad says it is set
  tree,             \* worker: the RBush index, as the sequence of its entries
  wLoad,            \* worker: position of the asynchronous load()
  wErrors,          \* worker: number of exceptions thrown out of onmessage
  toWorker,         \* messages posted to the worker, not yet handled
  toMain,           \* messages posted by the worker, not yet handled
  pending,          \* this._pending: 0 for null, else the promise to resolve
  features,         \* this._features
  progress,         \* this._progress: 0 for null, else the promise whose caller gave it
  resolved,         \* promise -> the features it was resolved with
  nextPromise,      \* number of the next promise _queryWorker creates
  emitted,          \* history: promise -> the features the worker emitted for its request
  overlapped,       \* history: promises created before the previous one was resolved
  \* ---- main-thread SpatialIndex ----
  loaded,           \* this.loaded
  spatialIndex,     \* this.spatialIndex: sequence of [id, bbox]
  userRuns,         \* this.userRuns: sequence of [id, geoms, bbox]
  nextId,           \* this.nextId
  localStorage,     \* the array stored under 'userRuns' (<<>>: no item)
  adding,           \* addRun calls suspended at an await: [id, at]
  \* ---- geometry selection ----
  lodGeoms,         \* the geoms of the run a query looks at: tier -> coordinates
  lodZoom,          \* the zoom of the query
  lodOut,           \* tier -> the tier each implementation returned ("none": no feature)
  \* ---- session-only SpatialIndex: polygon query, restarts ----
  polyOut,          \* what the getRunsInPolygon call of the last step returned
  uploaded,         \* history: tracks that were in the store when the page was left
  \* ---- geometry building (simplify) ----
  simpIn,           \* the coordinates addRun is called with
  simpOut,          \* the geoms addRun built from them, per version of addRun
  \* ---- calls of the pure functions ----
  callArgs,         \* the arguments of the call
  callResult,       \* what each implementation returned for them
  \* ---- lasso selection of the web page (index.html) ----
  isDrawingMode,    \* let isDrawingMode; the map listeners are attached while it is set
  isDrawing,        \* let isDrawing
  lassoCoords,      \* let polygonCoords of the page
  sidebarOpen,      \* let sidebarOpen
  panelOpen,        \* whether #side-panel has the class 'open'
  selectedRuns,     \* let selectedRuns (a Set)
  layerFilter,      \* the filter of the layer 'runsVec'
  panelCards,       \* ids of the .run-card elements of #panel-content
  checkedCards,     \* ids of the cards whose checkbox is checked
  areaRequests,     \* POST /api/runs_in_area requests in flight: their polygons
  mouse,            \* history: the mouse on the map ([down, path of the drag
                    \* in progress or just ended, position reached on it,
                    \* number of drags]) and the last event handled
  \* ---- HTTP range server plugin (HttpRangeServerPlugin) ----
  isRunning,        \* private boolean isRunning
  serverSocket,     \* private ServerSocket serverSocket: [n, open], the n-th
                    \* socket created (0: null) and whether it is open
  acceptLoops,      \* the accept loops alive, each by the socket it accepts on
  lastCall          \* history: the last plugin call or event and its result

cacheVars == <<view, zoom, caches, cacheOrder, lastCenter, lastZoom,
               activeController, inflight, displayed, serverRuns, moves,
               useOrder, storeOrder, lastOp>>

workerVars == <<runs, tree, wLoad, wErrors, toWorker, toMain, pending, features,
                progress, resolved, nextPromise, emitted, overlapped>>

indexVars == <<loaded, spatialIndex, userRuns, nextId, localStorage, adding>>

lodVars == <<lodGeoms, lodZoom, lodOut>>

polyVars == <<polyOut, uploaded>>

geomVars == <<simpIn, simpOut>>

callVars == <<callArgs, callResult>>

uiVars == <<isDrawingMode, isDrawing, lassoCoords, sidebarOpen, panelOpen,
            selectedRuns, layerFilter, panelCards, checkedCards, areaRequests, mouse>>

serverVars == <<isRunning, serverSocket, acceptLoops, lastCall>>

vars == <<cacheVars, workerVars, indexVars, lodVars, polyVars, geomVars, callVars,
          uiVars, serverVars>>

(***************************************************************************)
(* Helpers                                                                 *)
(***************************************************************************)
Abs(x) == IF x < 0 THEN 0 - x ELSE x

Range(s) == {s[i] : i \in 1..Len(s)}

SetMax(S) == CHOOSE x \in S : \A y \in S : y <= x

RemoveAt(s, i) == SubSeq(s, 1, i - 1) \o SubSeq(s, i + 1, Len(s))

\* Array.prototype.indexOf, 1-based; 0 stands for the -1 of the source
indexOf(s, x) ==
  IF \E i \in 1..Len(s) : s[i] = x
  THEN CHOOSE i \in 1..Len(s) : s[i] = x /\ \A j \in 1..(i - 1) : s[j] # x
  ELSE 0

\* the sequence without its occurrences of x
Without(s, x) == SelectSeq(s, LAMBDA y : y # x)

(***************************************************************************)
(* Bounds of the model                                                     *)
(***************************************************************************)
MaxMoves == 5

MaxQueries == 3

MaxAdds == 1

\* the largest id addRun hands out, and the longest userRuns loadData extends
MaxId == 3

MaxRuns == 3

\* largest number of points of a track handed to simplify
MaxLen == 5

\* largest zoom getZoomLevel is called with
MaxZoom == 22

\* largest number of drags of the mouse on the map
MaxDrags == 2

\* largest coordinate of the boxes bboxIntersects is called with
MaxCoord == 2

\* largest coordinate of the segment end points segmentsIntersect is called with
MaxGrid == 2

\* the largest number of server sockets the plugin creates
MaxStarts == 4

(***************************************************************************)
(* Shared pure functions                                                   *)
(***************************************************************************)
bboxIntersects_strict(b1, b2) ==
  ~(b1[3] <= b2[1] \/ b1[1] >= b2[3] \/ b1[4] <= b2[2] \/ b1[2] >= b2[4])

bboxIntersects(b1, b2) ==
  ~(b1[3] < b2[1] \/ b1[1] > b2[3] \/ b1[4] < b2[2] \/ b1[2] > b2[4])

getZoomLevel(z) ==
  IF z >= 15 THEN "full"
  ELSE IF z >= 13 THEN "high"
  ELSE IF z >= 10 THEN "mid"
  ELSE "low"

\* order of the tiers by detail, used to compare tiers
tierRank(t) ==
  CASE t = "low" -> 0 [] t = "mid" -> 1 [] t = "high" -> 2 [] t = "full" -> 3

(***************************************************************************)
(* Viewport cache and network path                                         *)
(***************************************************************************)
MAX_CACHES == 3

NoZoom == 0 - 1

\* the map views the user can move to: a span of 20 at three positions
mkView(w, s) == [west |-> w, south |-> s, east |-> w + 20, north |-> s + 20]

Views == {mkView(0, 0), mkView(5, 0), mkView(0, 30)}

Zooms == {10, 11, 13, 15}

\* the activities held by the server: id and bbox
ServerData ==
  { [id |-> 1, bbox |-> <<2, 2, 8, 8>>],
    [id |-> 2, bbox |-> <<22, 1, 24, 3>>],
    [id |-> 3, bbox |-> <<3, 40, 6, 45>>] }

\* GET /api/runs: the ids of the activities whose bbox intersects the
\* requested bbox (queryViewport of the specification)
apiRuns(bbox, z) == {a.id : a \in {r \in serverRuns : bboxIntersects(r.bbox, bbox)}}

withinBounds_noNorth(outer, inner) ==
  /\ inner.south >= outer.south
  /\ inner.west >= outer.west
  /\ inner.east <= outer.east

withinBounds(outer, inner) ==
  /\ inner.south >= outer.south
  /\ inner.north <= outer.north
  /\ inner.west >= outer.west
  /\ inner.east <= outer.east

NoHit == [hit |-> FALSE, key |-> NoZoom, data |-> {}]

\* the loop of getCached over the keys sorted in descending order
RECURSIVE scanLevels(_, _, _)
scanLevels(levels, v, z) ==
  IF levels = {} THEN NoHit
  ELSE LET k == SetMax(levels)
       IN IF k >= z /\ withinBounds(caches[k].bounds, v)
          THEN [hit |-> TRUE, key |-> k, data |-> caches[k].data]
          ELSE scanLevels(levels \ {k}, v, z)

RECURSIVE scanLevels_anyZoom(_, _, _)
scanLevels_anyZoom(levels, v, z) ==
  IF levels = {} THEN NoHit
  ELSE LET k == SetMax(levels)
       IN IF withinBounds(caches[k].bounds, v)
          THEN [hit |-> TRUE, key |-> k, data |-> caches[k].data]
          ELSE scanLevels_anyZoom(levels \ {k}, v, z)

getCached_anyZoom(v, z) == scanLevels_anyZoom(DOMAIN caches, v, z)

\* getCached: hit = FALSE stands for the null of the source
getCached(v, z) == scanLevels(DOMAIN caches, v, z)

storeCache_noSplice(z, bounds, data) ==
  LET c1 == [k \in DOMAIN caches \cup {z} |->
               IF k = z THEN [bounds |-> bounds, data |-> data] ELSE caches[k]]
      o2 == <<z>> \o cacheOrder
  IN IF Len(o2) > MAX_CACHES
     THEN LET old == o2[Len(o2)]
          IN /\ cacheOrder' = SubSeq(o2, 1, Len(o2) - 1)
             /\ caches' = [k \in DOMAIN c1 \ {old} |-> c1[k]]
     ELSE /\ cacheOrder' = o2
          /\ caches' = c1

storeCache_evictNewest(z, bounds, data) ==
  LET c1 == [k \in DOMAIN caches \cup {z} |->
               IF k = z THEN [bounds |-> bounds, data |-> data] ELSE caches[k]]
      idx == indexOf(cacheOrder, z)
      o1 == IF idx # 0 THEN RemoveAt(cacheOrder, idx) ELSE cacheOrder
      o2 == <<z>> \o o1
  IN IF Len(o2) > MAX_CACHES
     THEN LET old == o2[2]
          IN /\ cacheOrder' = RemoveAt(o2, 2)
             /\ caches' = [k \in DOMAIN c1 \ {old} |-> c1[k]]
     ELSE /\ cacheOrder' = o2
          /\ caches' = c1

storeCache(z, bounds, data) ==
  LET c1 == [k \in DOMAIN caches \cup {z} |->
               IF k = z THEN [bounds |-> bounds, data |-> data] ELSE caches[k]]
      idx == indexOf(cacheOrder, z)
      o1 == IF idx # 0 THEN RemoveAt(cacheOrder, idx) ELSE cacheOrder
      o2 == <<z>> \o o1
  IN IF Len(o2) > MAX_CACHES
     THEN LET old == o2[Len(o2)]
          IN /\ cacheOrder' = SubSeq(o2, 1, Len(o2) - 1)
             /\ caches' = [k \in DOMAIN c1 \ {old} |-> c1[k]]
     ELSE /\ cacheOrder' = o2
          /\ caches' = c1

\* margin factor in quarters: 4.0, 2.0, 0.5, 0.25
marginForZoom(z) ==
  IF z >= 15 THEN 16
  ELSE IF z >= 13 THEN 8
  ELSE IF z >= 11 THEN 2
  ELSE 1

\* map.getCenter(), doubled to stay in the integers
centerOf(v) == [lat2 |-> v.south + v.north, lng2 |-> v.west + v.east]

\* the bounds requested for view v at zoom z (fetchAndUpdate, lines 91-97)
fetchBounds(v, z) ==
  LET latExt == ((v.north - v.south) * marginForZoom(z)) \div 4
      lngExt == ((v.east - v.west) * marginForZoom(z)) \div 4
  IN [west |-> v.west - lngExt, south |-> v.south - latExt,
      east |-> v.east + lngExt, north |-> v.north + latExt]

boundsBbox(b) == <<b.west, b.south, b.east, b.north>>

centerMoved_noZoom(v, z) ==
  \/ lastCenter = <<>>
  \/ 5 * Abs(centerOf(v).lat2 - lastCenter[1].lat2) > 2 * (v.north - v.south)
  \/ 5 * Abs(centerOf(v).lng2 - lastCenter[1].lng2) > 2 * (v.east - v.west)

\* centerMoved of fetchAndUpdate; x > span * 0.2 is 5 * x > span, and the
\* centres are doubled
centerMoved(v, z) ==
  \/ lastCenter = <<>>
  \/ 5 * Abs(centerOf(v).lat2 - lastCenter[1].lat2) > 2 * (v.north - v.south)
  \/ 5 * Abs(centerOf(v).lng2 - lastCenter[1].lng2) > 2 * (v.east - v.west)
  \/ z # lastZoom

abortActive_none == inflight

\* activeController.abort(): the fetch of that request, if still in flight,
\* rejects with AbortError, which the catch handler ignores
abortActive == {r \in inflight : r.id # activeController}

\* history: the key served by a hit becomes the most recently used one
touch(order, k) == <<k>> \o Without(order, k)

\* the moveend handler, after the map has moved to view v at zoom z
fetchAndUpdate(v, z) ==
  /\ moves < MaxMoves
  /\ moves' = moves + 1
  /\ view' = v
  /\ zoom' = z
  /\ LET cached == getCached(v, z)
     IN /\ displayed' = IF cached.hit THEN cached.data ELSE displayed
        /\ useOrder' = IF cached.hit THEN touch(useOrder, cached.key) ELSE useOrder
        /\ IF ~centerMoved(v, z) /\ cached.hit
           THEN /\ UNCHANGED <<activeController, inflight>>
                /\ lastOp' = [op |-> "hit", aborted |-> FALSE, evicted |-> NoZoom]
           ELSE /\ activeController' = moves + 1
                /\ inflight' = abortActive \cup
                     {[id |-> moves + 1, z |-> z,
                       bounds |-> fetchBounds(v, z), center |-> centerOf(v)]}
                /\ lastOp' = [op |-> IF cached.hit THEN "hitRefetch" ELSE "miss",
                              aborted |-> abortActive # inflight,
                              evicted |-> NoZoom]
  /\ UNCHANGED <<caches, cacheOrder, lastCenter, lastZoom, serverRuns, storeOrder>>
  /\ UNCHANGED <<workerVars, indexVars, lodVars, polyVars, geomVars, callVars, uiVars, serverVars>>

\* .then(data => ...): the response of request r arrives
fetchResolved(r) ==
  /\ r \in inflight
  /\ LET data == apiRuns(boundsBbox(r.bounds), r.z)
     IN /\ storeCache(r.z, r.bounds, data)
        /\ displayed' = data
  /\ lastCenter' = <<r.center>>
  /\ lastZoom' = r.z
  /\ inflight' = inflight \ {r}
  /\ useOrder' = SelectSeq(touch(useOrder, r.z), LAMBDA k : k \in DOMAIN caches')
  /\ storeOrder' = SelectSeq(touch(storeOrder, r.z), LAMBDA k : k \in DOMAIN caches')
  /\ lastOp' = [op |-> "applied", aborted |-> FALSE,
                evicted |-> IF DOMAIN caches \subseteq DOMAIN caches' THEN NoZoom
                            ELSE CHOOSE k \in DOMAIN caches : k \notin DOMAIN caches']
  /\ UNCHANGED <<view, zoom, activeController, serverRuns, moves>>
  /\ UNCHANGED <<workerVars, indexVars, lodVars, polyVars, geomVars, callVars, uiVars, serverVars>>

fetchFailed_blank(r) ==
  /\ r \in inflight
  /\ inflight' = inflight \ {r}
  /\ displayed' = {}
  /\ lastOp' = [op |-> "failed", aborted |-> FALSE, evicted |-> NoZoom]
  /\ UNCHANGED <<view, zoom, caches, cacheOrder, lastCenter, lastZoom,
                 activeController, serverRuns, moves, useOrder, storeOrder>>
  /\ UNCHANGED <<workerVars, indexVars, lodVars, polyVars, geomVars, callVars, uiVars, serverVars>>

\* .catch(err => ...) with an error other than AbortError
fetchFailed(r) ==
  /\ r \in inflight
  /\ inflight' = inflight \ {r}
  /\ lastOp' = [op |-> "failed", aborted |-> FALSE, evicted |-> NoZoom]
  /\ UNCHANGED <<view, zoom, caches, cacheOrder, lastCenter, lastZoom,
                 activeController, displayed, serverRuns, moves, useOrder, storeOrder>>
  /\ UNCHANGED <<workerVars, indexVars, lodVars, polyVars, geomVars, callVars, uiVars, serverVars>>

\* the activities an upload can add to the server's store
NewActivities == { [id |-> 4, bbox |-> <<10, 10, 12, 12>>] }

\* the gpx-files change handler: updateServerData posts the parsed track to
\* /update_runs and the server adds the activity to its store
insertActivity(a) ==
  /\ a \notin serverRuns
  /\ serverRuns' = serverRuns \cup {a}
  /\ lastOp' = [op |-> "insert", aborted |-> FALSE, evicted |-> NoZoom]
  /\ UNCHANGED <<view, zoom, caches, cacheOrder, lastCenter, lastZoom,
                 activeController, inflight, displayed, moves, useOrder, storeOrder>>
  /\ UNCHANGED <<workerVars, indexVars, lodVars, polyVars, geomVars, callVars, uiVars, serverVars>>

(***************************************************************************)
(* Worker-backed query path                                                *)
(***************************************************************************)
Tiers == {"full", "high", "mid", "low"}

\* coordinates of a two-point line from (x0, y0) to (x1, y1)
line2(x0, y0, x1, y1) == <<<<x0, y0>>, <<x1, y1>>>>

\* data/runs.json and data/spatial_index.json as fetched by load()
BulkRuns ==
  (1 :> [geoms |-> [t \in Tiers |-> line2(0, 0, 4, 4)], bbox |-> <<0, 0, 4, 4>>]) @@
  (2 :> [geoms |-> [t \in Tiers |-> line2(10, 10, 14, 14)], bbox |-> <<10, 10, 14, 14>>])

BulkIndex ==
  << [id |-> 1, bbox |-> <<0, 0, 4, 4>>], [id |-> 2, bbox |-> <<10, 10, 14, 14>>] >>

\* the runs a mirrored 'add' message can carry
AddedRuns ==
  { [id |-> 3, geoms |-> [t \in Tiers |-> line2(2, 2, 6, 6)], bbox |-> <<2, 2, 6, 6>>] }

QueryBoxes == { <<0, 0, 5, 5>>, <<3, 3, 12, 12>> }

QueryZooms == {12, 16}

\* filterIds: <<>> stands for null, <<S>> for an array with the elements S
QueryFilters == { <<>>, <<{1, 3}>> }

BATCH == 500

runsSet == wLoad \in {"fetchIndex", "ready", "failedIndex"}

treeSet == wLoad = "ready"

\* tree.search(...).map(i => i.id): the ids of the entries intersecting bbox
RECURSIVE treeSearch(_, _)
treeSearch(entries, bbox) ==
  IF entries = <<>> THEN <<>>
  ELSE LET e == Head(entries)
       IN IF bboxIntersects(e.bbox, bbox)
          THEN <<e.id>> \o treeSearch(Tail(entries), bbox)
          ELSE treeSearch(Tail(entries), bbox)

\* run.geoms[zoomLevel] || run.geoms.mid || run.geoms.low || run.geoms.high ||
\* run.geoms.full: the first tier that is present; "none" for undefined
workerGeom(geoms, zoomLevel) ==
  IF zoomLevel \in DOMAIN geoms THEN zoomLevel
  ELSE IF "mid" \in DOMAIN geoms THEN "mid"
  ELSE IF "low" \in DOMAIN geoms THEN "low"
  ELSE IF "high" \in DOMAIN geoms THEN "high"
  ELSE IF "full" \in DOMAIN geoms THEN "full"
  ELSE "none"

\* Math.floor((i+1)*100/filtered.length) for the 1-based index i
progressValue(i, n) == (i * 100) \div n

\* the for loop of the query handler over filtered[i..]; feats is the
\* features array, out the messages posted so far
RECURSIVE workerLoop(_, _, _, _, _)
workerLoop(filtered, i, feats, out, msg) ==
  IF i > Len(filtered) THEN [features |-> feats, out |-> out]
  ELSE LET id == filtered[i]
       IN IF id \notin DOMAIN runs
          THEN workerLoop(filtered, i + 1, feats, out, msg)
          ELSE LET run == runs[id]
                   tier == workerGeom(run.geoms, getZoomLevel(msg.zoom))
               IN IF tier = "none" \/ Len(run.geoms[tier]) = 0
                  THEN workerLoop(filtered, i + 1, feats, out, msg)
                  ELSE IF ~bboxIntersects(run.bbox, msg.bbox)
                  THEN workerLoop(filtered, i + 1, feats, out, msg)
                  ELSE LET f1 == Append(feats, [id |-> id, geometry |-> run.geoms[tier],
                                                req |-> msg.req])
                           flush == Len(f1) >= msg.batch
                           out1 == IF flush
                                   THEN Append(out, [type |-> "chunk", features |-> f1])
                                   ELSE out
                           out2 == Append(out1, [type |-> "progress",
                                                 value |-> progressValue(i, Len(filtered))])
                       IN workerLoop(filtered, i + 1, IF flush THEN <<>> ELSE f1, out2, msg)

\* the messages the query handler posts for msg
workerQuery(msg) ==
  LET ids == treeSearch(tree, msg.bbox)
      filtered == IF msg.filterIds # <<>>
                  THEN SelectSeq(ids, LAMBDA id : id \in msg.filterIds[1])
                  ELSE ids
      res == workerLoop(filtered, 1, <<>>, <<>>, msg)
      out1 == IF Len(res.features) > 0
              THEN Append(res.out, [type |-> "chunk", features |-> res.features])
              ELSE res.out
  IN Append(out1, [type |-> "complete"])

\* the features carried by the chunk messages of a sequence of messages
RECURSIVE chunkFeatures(_)
chunkFeatures(msgs) ==
  IF msgs = <<>> THEN <<>>
  ELSE (IF Head(msgs).type = "chunk" THEN Head(msgs).features ELSE <<>>)
       \o chunkFeatures(Tail(msgs))

\* load(): runs = await fetchJson('data/runs.json')
loadRuns ==
  /\ wLoad = "fetchRuns"
  /\ \/ wLoad' = "fetchIndex" /\ runs' = BulkRuns
     \/ wLoad' = "failedRuns" /\ runs' = runs
  /\ UNCHANGED <<tree, wErrors, toWorker, toMain, pending, features, progress,
                 resolved, nextPromise, emitted, overlapped>>
  /\ UNCHANGED <<cacheVars, indexVars, lodVars, polyVars, geomVars, callVars, uiVars, serverVars>>

\* load(): index = await fetchJson(...); tree = new RBush(); tree.load(...);
\* postMessage({type: 'ready'})
loadIndex ==
  /\ wLoad = "fetchIndex"
  /\ \/ /\ wLoad' = "ready"
        /\ tree' = BulkIndex
        /\ toMain' = Append(toMain, [type |-> "ready"])
     \/ /\ wLoad' = "failedIndex"
        /\ UNCHANGED <<tree, toMain>>
  /\ UNCHANGED <<runs, wErrors, toWorker, pending, features, progress,
                 resolved, nextPromise, emitted, overlapped>>
  /\ UNCHANGED <<cacheVars, indexVars, lodVars, polyVars, geomVars, callVars, uiVars, serverVars>>

\* self.onmessage for a message of type 'add'
workerAdd ==
  /\ toWorker # <<>>
  /\ Head(toWorker).type = "add"
  /\ toWorker' = Tail(toWorker)
  /\ LET r == Head(toWorker).run
     IN IF ~runsSet
        THEN \* runs[r.id] = ... throws on null
             /\ wErrors' = wErrors + 1
             /\ UNCHANGED <<runs, tree>>
        ELSE IF ~treeSet
        THEN \* runs is updated, then tree.insert throws on null
             /\ runs' = (r.id :> [geoms |-> r.geoms, bbox |-> r.bbox]) @@ runs
             /\ wErrors' = wErrors + 1
             /\ UNCHANGED tree
        ELSE /\ runs' = (r.id :> [geoms |-> r.geoms, bbox |-> r.bbox]) @@ runs
             /\ tree' = Append(tree, [id |-> r.id, bbox |-> r.bbox])
             /\ UNCHANGED wErrors
  /\ UNCHANGED <<wLoad, toMain, pending, features, progress, resolved,
                 nextPromise, emitted, overlapped>>
  /\ UNCHANGED <<cacheVars, indexVars, lodVars, polyVars, geomVars, callVars, uiVars, serverVars>>

\* self.onmessage for a query message
workerOnQuery ==
  /\ toWorker # <<>>
  /\ Head(toWorker).type = "query"
  /\ toWorker' = Tail(toWorker)
  /\ IF ~runsSet \/ ~treeSet
     THEN UNCHANGED <<toMain, emitted>>
     ELSE LET msg == Head(toWorker)
              out == workerQuery(msg)
              \* the request a message answers and that request's kind are
              \* history only: the messages of the worker do not carry them
              tag == [req |-> msg.req, filtered |-> msg.filterIds # <<>>]
          IN /\ toMain' = toMain \o [i \in 1..Len(out) |-> out[i] @@ tag]
             /\ emitted' = (Head(toWorker).req :> chunkFeatures(out)) @@ emitted
  /\ UNCHANGED <<runs, tree, wLoad, wErrors, pending, features, progress,
                 resolved, nextPromise, overlapped>>
  /\ UNCHANGED <<cacheVars, indexVars, lodVars, polyVars, geomVars, callVars, uiVars, serverVars>>

\* the mirror of an upload to the worker: postMessage({type: 'add', run})
postAdd(r) ==
  /\ Cardinality({i \in 1..Len(toWorker) : toWorker[i].type = "add"})
       + Len(tree) - (IF treeSet THEN Len(BulkIndex) ELSE 0) + wErrors < MaxAdds
  /\ toWorker' = Append(toWorker, [type |-> "add", run |-> r])
  /\ UNCHANGED <<runs, tree, wLoad, wErrors, toMain, pending, features, progress,
                 resolved, nextPromise, emitted, overlapped>>
  /\ UNCHANGED <<cacheVars, indexVars, lodVars, polyVars, geomVars, callVars, uiVars, serverVars>>

\* _queryWorker(bbox, zoom, ids, progress), reached from getRunsForBoundsAsync
\* (ids = null, progress = null) and from filterRunsByIds, both after the
\* check of this.loaded
queryWorker(bbox, z, ids, cb) ==
  /\ loaded
  /\ nextPromise <= MaxQueries
  /\ pending' = nextPromise
  /\ features' = <<>>
  /\ progress' = IF cb THEN nextPromise ELSE 0
  /\ toWorker' = Append(toWorker, [type |-> "query", bbox |-> bbox, zoom |-> z,
                                   filterIds |-> ids, batch |-> BATCH,
                                   req |-> nextPromise])
  /\ nextPromise' = nextPromise + 1
  /\ overlapped' = IF pending # 0 THEN overlapped \cup {nextPromise} ELSE overlapped
  /\ UNCHANGED <<runs, tree, wLoad, wErrors, toMain, resolved, emitted>>
  /\ UNCHANGED <<cacheVars, indexVars, lodVars, polyVars, geomVars, callVars, uiVars, serverVars>>

getRunsForBoundsAsync(bbox, z) == queryWorker(bbox, z, <<>>, FALSE)

filterRunsByIds(runIds, bbox, z) == queryWorker(bbox, z, <<runIds>>, TRUE)

\* _handleWorkerMessage(e) for the oldest message of the worker
handleWorkerMessage ==
  /\ toMain # <<>>
  /\ toMain' = Tail(toMain)
  /\ LET m == Head(toMain)
     IN IF pending = 0
        THEN UNCHANGED <<pending, features, resolved>>
        ELSE IF m.type = "chunk"
        THEN /\ features' = features \o m.features
             /\ UNCHANGED <<pending, resolved>>
        ELSE IF m.type = "complete"
        THEN /\ resolved' = (pending :> features) @@ resolved
             /\ pending' = 0
             /\ features' = <<>>
        ELSE UNCHANGED <<pending, features, resolved>>
  /\ UNCHANGED <<runs, tree, wLoad, wErrors, toWorker, progress, nextPromise,
                 emitted, overlapped>>
  /\ UNCHANGED <<cacheVars, indexVars, lodVars, polyVars, geomVars, callVars, uiVars, serverVars>>

WorkerStart ==
  /\ runs = [k \in {} |-> 0]
  /\ tree = <<>>
  /\ wLoad = "fetchRuns"
  /\ wErrors = 0
  /\ toWorker = <<>>
  /\ toMain = <<>>
  /\ pending = 0
  /\ features = <<>>
  /\ progress = 0
  /\ resolved = [k \in {} |-> 0]
  /\ nextPromise = 1
  /\ emitted = [k \in {} |-> 0]
  /\ overlapped = {}

\* the SpatialIndex after the constructor and loadData with nothing stored
IndexLoaded ==
  /\ loaded = TRUE
  /\ spatialIndex = <<>>
  /\ userRuns = <<>>
  /\ nextId = 1
  /\ localStorage = <<>>
  /\ adding = {}

(***************************************************************************)
(* Main-thread SpatialIndex (loadData, addRun, getRunsForBounds)           *)
(*                                                                         *)
(* Coordinates of tracks are in units of 0.0001 degree, so that the        *)
(* tolerances 0.0001, 0.0005 and 0.001 of addRun are 1, 5 and 10.          *)
(***************************************************************************)
TolHigh == 1

TolMid == 5

TolLow == 10

\* the coordinate sequences addRun is called with
Tracks ==
  { <<<<0, 0>>, <<3, 4>>, <<12, 0>>>>,
    <<<<20, 20>>, <<30, 30>>>>,
    <<<<5, 5>>>> }

\* the bboxes and zooms of the viewport queries looked at
IndexBoxes == { <<0, 0, 12, 4>>, <<12, 4, 20, 20>>, <<25, 25, 40, 40>> }

IndexZooms == {9, 12, 14, 16}

Min(a, b) == IF a < b THEN a ELSE b

Max(a, b) == IF a > b THEN a ELSE b

\* Infinity: larger than every coordinate
Infinity == 1000000000

\* getPolygonBbox: the minima start at Infinity and the maxima at -Infinity,
\* which is what is returned for a sequence without points
RECURSIVE getPolygonBbox(_)
getPolygonBbox(coords) ==
  IF coords = <<>>
  THEN <<Infinity, Infinity, 0 - Infinity, 0 - Infinity>>
  ELSE LET b == getPolygonBbox(Tail(coords))
           c == Head(coords)
       IN <<Min(c[1], b[1]), Min(c[2], b[2]), Max(c[1], b[3]), Max(c[2], b[4])>>

RECURSIVE simplifyLoop_keepNear(_, _, _, _, _)
simplifyLoop_keepNear(coords, i, last, simplified, tolerance) ==
  IF i > Len(coords) - 1 THEN simplified
  ELSE LET c == coords[i]
           dx == c[1] - last[1]
           dy == c[2] - last[2]
       IN IF dx * dx + dy * dy <= tolerance * tolerance
          THEN simplifyLoop_keepNear(coords, i + 1, c, Append(simplified, c), tolerance)
          ELSE simplifyLoop_keepNear(coords, i + 1, last, simplified, tolerance)

\* the for loop of simplify from index i (1-based) on
RECURSIVE simplifyLoop(_, _, _, _, _)
simplifyLoop(coords, i, last, simplified, tolerance) ==
  IF i > Len(coords) - 1 THEN simplified
  ELSE LET c == coords[i]
           dx == c[1] - last[1]
           dy == c[2] - last[2]
       IN IF dx * dx + dy * dy > tolerance * tolerance
          THEN simplifyLoop(coords, i + 1, c, Append(simplified, c), tolerance)
          ELSE simplifyLoop(coords, i + 1, last, simplified, tolerance)

simplify_noLast(coords, tolerance) ==
  IF Len(coords) <= 2 THEN coords
  ELSE simplifyLoop(coords, 2, coords[1], <<coords[1]>>, tolerance)

simplify(coords, tolerance) ==
  IF Len(coords) <= 2 THEN coords
  ELSE Append(simplifyLoop(coords, 2, coords[1], <<coords[1]>>, tolerance),
              coords[Len(coords)])

\* the run addRun builds for coords under the id
buildRun(id, coords) ==
  [id |-> id,
   geoms |-> [t \in Tiers |->
                CASE t = "full" -> coords
                  [] t = "high" -> simplify(coords, TolHigh)
                  [] t = "mid" -> simplify(coords, TolMid)
                  [] t = "low" -> simplify(coords, TolLow)],
   bbox |-> getPolygonBbox(coords)]

\* Array.prototype.findIndex, 1-based; 0 stands for -1
findIndexOfId(s, id) ==
  IF \E i \in 1..Len(s) : s[i].id = id
  THEN CHOOSE i \in 1..Len(s) : s[i].id = id /\ \A j \in 1..(i - 1) : s[j].id # id
  ELSE 0

removeFirstWithId(s, id) ==
  IF findIndexOfId(s, id) # 0 THEN RemoveAt(s, findIndexOfId(s, id)) ELSE s

RECURSIVE maxId(_)
maxId(rs) == IF rs = <<>> THEN 0 ELSE Max(Head(rs).id, maxId(Tail(rs)))

\* new SpatialIndex(), as on a (re)start of the page; localStorage persists
construct ==
  /\ loaded' = FALSE
  /\ spatialIndex' = <<>>
  /\ userRuns' = <<>>
  /\ nextId' = 1
  /\ adding' = {}
  /\ UNCHANGED localStorage
  /\ UNCHANGED <<cacheVars, workerVars, lodVars, polyVars, geomVars, callVars, uiVars, serverVars>>

\* loadData: this.spatialIndex = []; loadUserRuns() pushes every stored run
\* to spatialIndex and to userRuns; nextId is one more than the largest id
loadData ==
  /\ Len(userRuns) + Len(localStorage) <= MaxRuns
  /\ spatialIndex' = [i \in 1..Len(localStorage) |->
                        [id |-> localStorage[i].id, bbox |-> localStorage[i].bbox]]
  /\ userRuns' = userRuns \o localStorage
  /\ nextId' = maxId(userRuns \o localStorage) + 1
  /\ loaded' = TRUE
  /\ UNCHANGED <<localStorage, adding>>
  /\ UNCHANGED <<cacheVars, workerVars, lodVars, polyVars, geomVars, callVars, uiVars, serverVars>>

\* addRun up to its first await (updateServerData)
addRun(coords) ==
  /\ nextId <= MaxId
  /\ Len(userRuns) < MaxRuns
  /\ nextId' = nextId + 1
  /\ spatialIndex' = Append(spatialIndex, [id |-> nextId, bbox |-> getPolygonBbox(coords)])
  /\ userRuns' = Append(userRuns, buildRun(nextId, coords))
  /\ adding' = adding \cup {[id |-> nextId, at |-> "updateServerData"]}
  /\ UNCHANGED <<loaded, localStorage>>
  /\ UNCHANGED <<cacheVars, workerVars, lodVars, polyVars, geomVars, callVars, uiVars, serverVars>>

\* updateServerData resolved: addRun goes on to await reloadPMTiles()
addRunSynced(c) ==
  /\ c \in adding
  /\ c.at = "updateServerData"
  /\ adding' = (adding \ {c}) \cup {[c EXCEPT !.at = "reloadPMTiles"]}
  /\ UNCHANGED <<loaded, spatialIndex, userRuns, nextId, localStorage>>
  /\ UNCHANGED <<cacheVars, workerVars, lodVars, polyVars, geomVars, callVars, uiVars, serverVars>>

\* updateServerData rejected: catch (error) { this.saveUserRuns(); }
\* (setItem is taken to succeed)
addRunSyncFailed(c) ==
  /\ c \in adding
  /\ c.at = "updateServerData"
  /\ localStorage' = userRuns
  /\ adding' = adding \ {c}
  /\ UNCHANGED <<loaded, spatialIndex, userRuns, nextId>>
  /\ UNCHANGED <<cacheVars, workerVars, lodVars, polyVars, geomVars, callVars, uiVars, serverVars>>

\* reloadPMTiles resolved (it catches its own errors, so it always resolves):
\* localStorage.removeItem('userRuns') and the run leaves index and store
addRunReloaded(c) ==
  /\ c \in adding
  /\ c.at = "reloadPMTiles"
  /\ localStorage' = <<>>
  /\ spatialIndex' = removeFirstWithId(spatialIndex, c.id)
  /\ userRuns' = removeFirstWithId(userRuns, c.id)
  /\ adding' = adding \ {c}
  /\ UNCHANGED <<loaded, nextId>>
  /\ UNCHANGED <<cacheVars, workerVars, lodVars, polyVars, geomVars, callVars, uiVars, serverVars>>

\* ---- the earlier addRun (the variant that does not touch spatialIndex) ----

\* addRun up to its first await: the run is pushed to userRuns only
addRun009(coords) ==
  /\ nextId <= MaxId
  /\ Len(userRuns) < MaxRuns
  /\ nextId' = nextId + 1
  /\ userRuns' = Append(userRuns, buildRun(nextId, coords))
  /\ adding' = adding \cup {[id |-> nextId, at |-> "updateServerData"]}
  /\ UNCHANGED <<loaded, spatialIndex, localStorage>>
  /\ UNCHANGED <<cacheVars, workerVars, lodVars, polyVars, geomVars, callVars, uiVars, serverVars>>

\* updateServerData resolved: localStorage.removeItem('userRuns');
\* this.userRuns = []; then await reloadPMTiles()
addRun009Synced(c) ==
  /\ c \in adding
  /\ c.at = "updateServerData"
  /\ localStorage' = <<>>
  /\ userRuns' = <<>>
  /\ adding' = (adding \ {c}) \cup {[c EXCEPT !.at = "reloadPMTiles"]}
  /\ UNCHANGED <<loaded, spatialIndex, nextId>>
  /\ UNCHANGED <<cacheVars, workerVars, lodVars, polyVars, geomVars, callVars, uiVars, serverVars>>

\* updateServerData or reloadPMTiles rejected: this.saveUserRuns()
addRun009Failed(c) ==
  /\ c \in adding
  /\ localStorage' = userRuns
  /\ adding' = adding \ {c}
  /\ UNCHANGED <<loaded, spatialIndex, userRuns, nextId>>
  /\ UNCHANGED <<cacheVars, workerVars, lodVars, polyVars, geomVars, callVars, uiVars, serverVars>>

\* reloadPMTiles resolved: addRun returns the id
addRun009Reloaded(c) ==
  /\ c \in adding
  /\ c.at = "reloadPMTiles"
  /\ adding' = adding \ {c}
  /\ UNCHANGED <<loaded, spatialIndex, userRuns, nextId, localStorage>>
  /\ UNCHANGED <<cacheVars, workerVars, lodVars, polyVars, geomVars, callVars, uiVars, serverVars>>

\* the geometry getRunsForBounds picks for a run: geoms[zoomLevel], or when
\* that is missing or empty the first tier present of mid, low, high, full;
\* "none" when no tier is present
boundsGeom(geoms, zoomLevel) ==
  IF zoomLevel \in DOMAIN geoms /\ Len(geoms[zoomLevel]) # 0 THEN zoomLevel
  ELSE IF "mid" \in DOMAIN geoms THEN "mid"
  ELSE IF "low" \in DOMAIN geoms THEN "low"
  ELSE IF "high" \in DOMAIN geoms THEN "high"
  ELSE IF "full" \in DOMAIN geoms THEN "full"
  ELSE "none"

\* the tier of the feature getRunsForBounds pushes for a run; "none" when
\* the validation (more than one coordinate) rejects the geometry
boundsFeatureTier(geoms, z) ==
  LET t == boundsGeom(geoms, getZoomLevel(z))
  IN IF t # "none" /\ Len(geoms[t]) > 1 THEN t ELSE "none"

\* the loop of getRunsForBounds over this.spatialIndex
RECURSIVE boundsLoop(_, _, _)
boundsLoop(entries, bbox, z) ==
  IF entries = <<>> THEN <<>>
  ELSE LET e == Head(entries)
           rest == boundsLoop(Tail(entries), bbox, z)
           i == findIndexOfId(userRuns, e.id)
       IN IF ~bboxIntersects(e.bbox, bbox) \/ i = 0 THEN rest
          ELSE IF boundsFeatureTier(userRuns[i].geoms, z) = "none" THEN rest
          ELSE <<[id |-> e.id,
                  geometry |-> userRuns[i].geoms[boundsFeatureTier(userRuns[i].geoms, z)]]>>
               \o rest

\* getRunsForBounds, with the bbox <<minLng, minLat, maxLng, maxLat>>
getRunsForBounds(bbox, z) ==
  IF ~loaded THEN <<>> ELSE boundsLoop(spatialIndex, bbox, z)

featureIds(fs) == {fs[i].id : i \in 1..Len(fs)}

IndexStart ==
  /\ loaded = FALSE
  /\ spatialIndex = <<>>
  /\ userRuns = <<>>
  /\ nextId = 1
  /\ localStorage = <<>>
  /\ adding = {}

\* the value of polyOut when the last step was not a polygon query
NoPoly == [poly |-> <<>>, ids |-> {}]

PolyIdle ==
  /\ polyOut = NoPoly
  /\ uploaded = {}

NoGeoms == [k \in {} |-> 0]

CallIdle ==
  /\ callArgs = <<>>
  /\ callResult = <<>>

NoFilter == [kind |-> "null"]

NoMouse == [down |-> FALSE, path |-> <<>>, at |-> 0, drags |-> 0, lastEvent |-> "load"]

UiIdle ==
  /\ isDrawingMode = FALSE
  /\ isDrawing = FALSE
  /\ lassoCoords = <<>>
  /\ sidebarOpen = FALSE
  /\ panelOpen = FALSE
  /\ selectedRuns = {}
  /\ layerFilter = NoFilter
  /\ panelCards = {}
  /\ checkedCards = {}
  /\ areaRequests = {}
  /\ mouse = NoMouse

GeomIdle ==
  /\ simpIn = <<>>
  /\ simpOut = NoGeoms

(***************************************************************************)
(* Session-only SpatialIndex (the class whose loadData gives local uploads *)
(* the id space from LOCAL_ID_BASE on): loadData, addRun, getRunsInPolygon *)
(***************************************************************************)
LOCAL_ID_BASE == 1000000

\* the coordinate sequences addRun is called with: a track inside the
\* square lasso, one crossing it without a vertex inside, one ending on its
\* right edge, a single point, and no point at all
Tracks010 ==
  { <<<<12, 12>>, <<15, 17>>>>,
    <<<<5, 15>>, <<25, 15>>>>,
    <<<<20, 14>>, <<26, 14>>>>,
    <<<<13, 13>>>>,
    <<>> }

\* lasso polygons as finishDrawing passes them: closed rings
Polygons ==
  { <<<<10, 10>>, <<20, 10>>, <<20, 20>>, <<10, 20>>, <<10, 10>>>>,
    <<<<10, 10>>, <<10, 20>>, <<20, 20>>, <<20, 10>>, <<10, 10>>>>,
    <<<<0, 0>>, <<30, 0>>, <<15, 30>>, <<0, 0>>>>,
    <<<<22, 0>>, <<30, 0>>, <<30, 30>>, <<22, 0>>>> }

\* the test of pointInPolygon for the edge from polygon[j] to polygon[i]:
\* ((yi > y) !== (yj > y)) && (x < (xj - xi) * (y - yi) / (yj - yi) + xi),
\* with the division carried out exactly
edgeCrossed(point, pi, pj) ==
  LET x == point[1]
      y == point[2]
      d == pj[2] - pi[2]
      n == (pj[1] - pi[1]) * (y - pi[2])
  IN /\ (pi[2] > y) # (pj[2] > y)
     /\ IF d > 0 THEN (x - pi[1]) * d < n ELSE (x - pi[1]) * d > n

pointInPolygon_sameSide(point, polygon) ==
  Cardinality({i \in 1..Len(polygon) :
                 LET pi == polygon[i]
                     pj == polygon[IF i = 1 THEN Len(polygon) ELSE i - 1]
                 IN (pi[2] > point[2]) = (pj[2] > point[2])}) % 2 = 1

\* pointInPolygon: inside is toggled once for every edge the test holds for
pointInPolygon(point, polygon) ==
  Cardinality({i \in 1..Len(polygon) :
                 edgeCrossed(point, polygon[i],
                             polygon[IF i = 1 THEN Len(polygon) ELSE i - 1])}) % 2 = 1

\* geometryIntersectsPolygon of the session-only class: some coordinate of
\* the geometry is in the polygon (edge-only intersections are not looked at)
geometryIntersectsPolygon(lineCoords, polygonCoords) ==
  \E k \in 1..Len(lineCoords) : pointInPolygon(lineCoords[k], polygonCoords)

\* orientation(a, b, c) of segmentsIntersect
orientation(a, b, c) == (b[2] - a[2]) * (c[1] - b[1]) - (b[1] - a[1]) * (c[2] - b[2])

\* onSegment(a, b, c) of segmentsIntersect: b is in the bbox of a and c
onSegment(a, b, c) ==
  /\ Min(a[1], c[1]) <= b[1] /\ b[1] <= Max(a[1], c[1])
  /\ Min(a[2], c[2]) <= b[2] /\ b[2] <= Max(a[2], c[2])

\* segmentsIntersect of the class with lineIntersectsPolygon: the segments
\* cross properly, or an end point of one lies on the other
segmentsIntersect_properOnly(p1, p2, p3, p4) ==
  orientation(p1, p2, p3) * orientation(p1, p2, p4) < 0
    /\ orientation(p3, p4, p1) * orientation(p3, p4, p2) < 0

segmentsIntersect(p1, p2, p3, p4) ==
  LET o1 == orientation(p1, p2, p3)
      o2 == orientation(p1, p2, p4)
      o3 == orientation(p3, p4, p1)
      o4 == orientation(p3, p4, p2)
  IN \/ o1 * o2 < 0 /\ o3 * o4 < 0
     \/ o1 = 0 /\ onSegment(p1, p3, p2)
     \/ o2 = 0 /\ onSegment(p1, p4, p2)
     \/ o3 = 0 /\ onSegment(p3, p1, p4)
     \/ o4 = 0 /\ onSegment(p3, p2, p4)

\* lineIntersectsPolygon: a segment of the line meets an edge
\* polygon[j-1]..polygon[j] of the polygon
lineIntersectsPolygon(lineCoords, polygonCoords) ==
  \E i \in 2..Len(lineCoords), j \in 2..Len(polygonCoords) :
    segmentsIntersect(lineCoords[i - 1], lineCoords[i],
                      polygonCoords[j - 1], polygonCoords[j])

\* geometryIntersectsPolygon of the class with lineIntersectsPolygon
geometryIntersectsPolygon011(lineCoords, polygonCoords) ==
  \/ \E k \in 1..Len(lineCoords) : pointInPolygon(lineCoords[k], polygonCoords)
  \/ lineIntersectsPolygon(lineCoords, polygonCoords)

\* the loop of getRunsInPolygon over this.spatialIndex
RECURSIVE polygonLoop(_, _)
polygonLoop(entries, polygonCoords) ==
  IF entries = <<>> THEN <<>>
  ELSE LET e == Head(entries)
           rest == polygonLoop(Tail(entries), polygonCoords)
           i == findIndexOfId(userRuns, e.id)
       IN IF /\ bboxIntersects(e.bbox, getPolygonBbox(polygonCoords))
             /\ i # 0
             /\ geometryIntersectsPolygon(userRuns[i].geoms["full"], polygonCoords)
          THEN <<[id |-> userRuns[i].id, bbox |-> userRuns[i].bbox]>> \o rest
          ELSE rest

getRunsInPolygon(polygonCoords) ==
  IF ~loaded THEN <<>> ELSE polygonLoop(spatialIndex, polygonCoords)

\* the tracks of the runs in the store
storedTracks == {userRuns[i].geoms["full"] : i \in 1..Len(userRuns)}

\* new SpatialIndex() on a (re)start of the page; the history keeps the
\* tracks that were in the store when the page was left
construct010 ==
  /\ loaded' = FALSE
  /\ spatialIndex' = <<>>
  /\ userRuns' = <<>>
  /\ nextId' = 1
  /\ uploaded' = uploaded \cup storedTracks
  /\ polyOut' = NoPoly
  /\ UNCHANGED <<localStorage, adding>>
  /\ UNCHANGED <<cacheVars, workerVars, lodVars, geomVars, callVars, uiVars, serverVars>>

\* loadData: both arrays are emptied and nextId becomes LOCAL_ID_BASE
loadData010 ==
  /\ spatialIndex' = <<>>
  /\ userRuns' = <<>>
  /\ nextId' = LOCAL_ID_BASE
  /\ loaded' = TRUE
  /\ polyOut' = NoPoly
  /\ UNCHANGED <<localStorage, adding, uploaded>>
  /\ UNCHANGED <<cacheVars, workerVars, lodVars, geomVars, callVars, uiVars, serverVars>>

\* addRun: no await, the run is pushed to the index and to the store
addRun010(coords) ==
  /\ Len(userRuns) < MaxRuns
  /\ \/ nextId <= MaxId
     \/ nextId >= LOCAL_ID_BASE /\ nextId < LOCAL_ID_BASE + MaxId
  /\ nextId' = nextId + 1
  /\ spatialIndex' = Append(spatialIndex, [id |-> nextId, bbox |-> getPolygonBbox(coords)])
  /\ userRuns' = Append(userRuns, buildRun(nextId, coords))
  /\ polyOut' = NoPoly
  /\ UNCHANGED <<loaded, localStorage, adding, uploaded>>
  /\ UNCHANGED <<cacheVars, workerVars, lodVars, geomVars, callVars, uiVars, serverVars>>

\* a call of getRunsInPolygon with the lasso polygon
callGetRunsInPolygon(polygonCoords) ==
  /\ polyOut' = [poly |-> polygonCoords,
                 ids |-> featureIds(getRunsInPolygon(polygonCoords))]
  /\ UNCHANGED <<uploaded, indexVars>>
  /\ UNCHANGED <<cacheVars, workerVars, lodVars, geomVars, callVars, uiVars, serverVars>>

(***************************************************************************)
(* Geometry building: the tiers addRun derives from a track with simplify  *)
(***************************************************************************)
\* the tolerances 0.00005, 0.0003 and 0.0009 of the earlier addRun, for
\* coordinates in units of 0.00005 degree
OldTolHigh == 1

OldTolMid == 6

OldTolLow == 18

\* the points the tracks are made of
GeomPoints ==
  { <<0, 0>>, <<1, 0>>, <<2, 0>>, <<6, 0>>, <<0, 3>>, <<12, 0>>, <<20, 0>> }

\* all tracks of at most n points
tracksUpTo(n) == UNION { [1..k -> GeomPoints] : k \in 0..n }

\* geoms of the earlier addRun
buildGeomsOld(coords) ==
  [t \in Tiers |->
     CASE t = "full" -> coords
       [] t = "high" -> simplify(coords, OldTolHigh)
       [] t = "mid" -> simplify(coords, OldTolMid)
       [] t = "low" -> simplify(coords, OldTolLow)]

\* addRun builds geoms from its coords
addRunGeoms ==
  /\ "cur" \notin DOMAIN simpOut
  /\ simpOut' = ("cur" :> buildRun(1, simpIn).geoms) @@ simpOut
  /\ UNCHANGED simpIn
  /\ UNCHANGED <<cacheVars, workerVars, indexVars, lodVars, polyVars, callVars, uiVars, serverVars>>

\* the earlier addRun builds geoms from its coords
addRunGeomsOld ==
  /\ "old" \notin DOMAIN simpOut
  /\ simpOut' = ("old" :> buildGeomsOld(simpIn)) @@ simpOut
  /\ UNCHANGED simpIn
  /\ UNCHANGED <<cacheVars, workerVars, indexVars, lodVars, polyVars, callVars, uiVars, serverVars>>

GeomStart ==
  /\ simpIn \in tracksUpTo(MaxLen)
  /\ simpOut = NoGeoms

(***************************************************************************)
(* Geometry selection of the three query implementations                   *)
(***************************************************************************)
\* the coordinates of a geometry with n points
points(n) == [i \in 1..n |-> <<i, i>>]

\* geoms objects with tiers missing, empty, of one, two or three points
LodGeoms ==
  UNION { [ts -> {points(0), points(1), points(2), points(3)}] : ts \in SUBSET Tiers }

LodZooms == {9, 12, 14, 16}

\* filterRunsByIds of the main-thread implementation: the chain has no full
idsGeom(geoms, zoomLevel) ==
  IF zoomLevel \in DOMAIN geoms /\ Len(geoms[zoomLevel]) # 0 THEN zoomLevel
  ELSE IF "mid" \in DOMAIN geoms THEN "mid"
  ELSE IF "low" \in DOMAIN geoms THEN "low"
  ELSE IF "high" \in DOMAIN geoms THEN "high"
  ELSE "none"

idsFeatureTier(geoms, z) ==
  LET t == idsGeom(geoms, getZoomLevel(z))
  IN IF t # "none" /\ Len(geoms[t]) > 1 THEN t ELSE "none"

\* the worker: the geometry is emitted unless it is missing or empty
workerFeatureTier(geoms, z) ==
  LET t == workerGeom(geoms, getZoomLevel(z))
  IN IF t # "none" /\ Len(geoms[t]) # 0 THEN t ELSE "none"

NoOut == [impl \in {"getRunsForBounds", "filterRunsByIds", "worker"} |-> "pending"]

\* the three implementations select the geometry of the run for the zoom
selectGeometry ==
  /\ lodOut = NoOut
  /\ lodOut' = [impl \in DOMAIN NoOut |->
                  CASE impl = "getRunsForBounds" -> boundsFeatureTier(lodGeoms, lodZoom)
                    [] impl = "filterRunsByIds" -> idsFeatureTier(lodGeoms, lodZoom)
                    [] impl = "worker" -> workerFeatureTier(lodGeoms, lodZoom)]
  /\ UNCHANGED <<lodGeoms, lodZoom>>
  /\ UNCHANGED <<cacheVars, workerVars, indexVars, polyVars, geomVars, callVars, uiVars, serverVars>>

LodIdle ==
  /\ lodGeoms = [t \in Tiers |-> points(2)]
  /\ lodZoom = 12
  /\ lodOut = NoOut

LodStart ==
  /\ lodGeoms \in LodGeoms
  /\ lodZoom \in LodZooms
  /\ lodOut = NoOut

(***************************************************************************)
(* Calls of the pure functions: each implementation is applied to the      *)
(* arguments and its answer recorded in callResult                         *)
(***************************************************************************)
\* getZoomLevel of spatial.worker.js
workerGetZoomLevel(z) ==
  IF z >= 15 THEN "full"
  ELSE IF z >= 13 THEN "high"
  ELSE IF z >= 10 THEN "mid"
  ELSE "low"

\* getZoomLevel of the SpatialIndex whose addRun builds the tiers high, mid, low
getZoomLevel012(z) ==
  IF z >= 13 THEN "high"
  ELSE IF z >= 10 THEN "mid"
  ELSE "low"

\* bboxIntersects of spatial.worker.js
workerBboxIntersects(b1, b2) ==
  ~(b1[3] < b2[1] \/ b1[1] > b2[3] \/ b1[4] < b2[2] \/ b1[2] > b2[4])

\* segmentsIntersect of the SpatialIndex with the staged getRunsInPolygon
segmentsIntersect010(p1, p2, p3, p4) ==
  LET o1 == orientation(p1, p2, p3)
      o2 == orientation(p1, p2, p4)
      o3 == orientation(p3, p4, p1)
      o4 == orientation(p3, p4, p2)
  IN IF o1 * o2 < 0 /\ o3 * o4 < 0 THEN TRUE
     ELSE IF o1 = 0 /\ onSegment(p1, p3, p2) THEN TRUE
     ELSE IF o2 = 0 /\ onSegment(p1, p4, p2) THEN TRUE
     ELSE IF o3 = 0 /\ onSegment(p3, p1, p4) THEN TRUE
     ELSE IF o4 = 0 /\ onSegment(p3, p2, p4) THEN TRUE
     ELSE FALSE

NoResult == [k \in {} |-> 0]

\* an implementation impl answers the call with value
answer(impl, value) ==
  /\ impl \notin DOMAIN callResult
  /\ callResult' = (impl :> value) @@ callResult
  /\ UNCHANGED callArgs
  /\ UNCHANGED <<cacheVars, workerVars, indexVars, lodVars, polyVars, geomVars, uiVars, serverVars>>

callGetZoomLevel == answer("main", getZoomLevel(callArgs.zoom))

callWorkerGetZoomLevel == answer("worker", workerGetZoomLevel(callArgs.zoom))

callGetZoomLevel012 == answer("older", getZoomLevel012(callArgs.zoom))

ZoomStart ==
  /\ callArgs \in [zoom : 0..MaxZoom]
  /\ callResult = NoResult

\* the answers of bboxIntersects for (a, b), (b, a), (a, a)
callBboxIntersects ==
  answer("main", [ab |-> bboxIntersects(callArgs.a, callArgs.b),
                  ba |-> bboxIntersects(callArgs.b, callArgs.a),
                  aa |-> bboxIntersects(callArgs.a, callArgs.a)])

callWorkerBboxIntersects ==
  answer("worker", [ab |-> workerBboxIntersects(callArgs.a, callArgs.b),
                    ba |-> workerBboxIntersects(callArgs.b, callArgs.a),
                    aa |-> workerBboxIntersects(callArgs.a, callArgs.a)])

\* all bboxes <<minLng, minLat, maxLng, maxLat>> over the coordinates, the
\* ill-formed ones (max below min) included
Boxes == (0..MaxCoord) \X (0..MaxCoord) \X (0..MaxCoord) \X (0..MaxCoord)

BboxStart ==
  /\ callArgs \in [a : Boxes, b : Boxes]
  /\ callResult = NoResult

GridPoints == (0..MaxGrid) \X (0..MaxGrid)

\* the answers of segmentsIntersect for the segments p1p2, p3p4 in both orders
callSegmentsIntersect ==
  LET a == callArgs
  IN answer("main", [fwd |-> segmentsIntersect(a.p1, a.p2, a.p3, a.p4),
                     rev |-> segmentsIntersect(a.p3, a.p4, a.p1, a.p2)])

callSegmentsIntersect010 ==
  LET a == callArgs
  IN answer("staged", [fwd |-> segmentsIntersect010(a.p1, a.p2, a.p3, a.p4),
                       rev |-> segmentsIntersect010(a.p3, a.p4, a.p1, a.p2)])

SegmentsStart ==
  /\ callArgs \in [p1 : GridPoints, p2 : GridPoints, p3 : GridPoints, p4 : GridPoints]
  /\ callResult = NoResult

\* ---- the staged polygon test of getRunsInPolygon ----
\* the tracks of the candidate runs
PolyTracks ==
  Tracks010 \cup
  { <<<<5, 15>>, <<45, 15>>>>,
    <<<<5, 5>>, <<5, 25>>, <<25, 25>>>>,
    <<<<40, 40>>, <<41, 41>>>> }

\* the run addRun stores for the track: all four tiers, or the tiers high,
\* mid, low of the class without a full tier
stagedRun(coords) == [bbox |-> getPolygonBbox(coords), geoms |-> buildGeomsOld(coords)]

olderRun(coords) ==
  [bbox |-> getPolygonBbox(coords),
   geoms |-> [t \in {"high", "mid", "low"} |-> buildGeomsOld(coords)[t]]]

\* pointInPolygon(runCenter, polygonCoords) for the centre
\* [(b0 + b2) / 2, (b1 + b3) / 2] of the bbox: point and polygon are doubled
\* so that the halves stay whole numbers
centerInPolygon(runBbox, polygonCoords) ==
  pointInPolygon(<<runBbox[1] + runBbox[3], runBbox[2] + runBbox[4]>>,
                 [i \in 1..Len(polygonCoords) |->
                    <<2 * polygonCoords[i][1], 2 * polygonCoords[i][2]>>])

\* the corners of the bbox: bottom-left, bottom-right, top-right, top-left
corners(runBbox) ==
  << <<runBbox[1], runBbox[2]>>, <<runBbox[3], runBbox[2]>>,
     <<runBbox[3], runBbox[4]>>, <<runBbox[1], runBbox[4]>> >>

\* a || b || ...: the first tier of the chain that is present, "none" if none
firstPresent(geoms, chain) ==
  IF \E i \in 1..Len(chain) : chain[i] \in DOMAIN geoms
  THEN chain[CHOOSE i \in 1..Len(chain) :
               /\ chain[i] \in DOMAIN geoms
               /\ \A j \in 1..(i - 1) : chain[j] \notin DOMAIN geoms]
  ELSE "none"

\* the body of the loop of the staged getRunsInPolygon for a run that passed
\* the bbox test: the value of intersects
stagedIntersects(run, polygonCoords) ==
  IF centerInPolygon(run.bbox, polygonCoords) THEN TRUE
  ELSE IF \E k \in 1..4 : pointInPolygon(corners(run.bbox)[k], polygonCoords) THEN TRUE
  ELSE LET t == firstPresent(run.geoms, <<"full", "high", "mid", "low">>)
       IN IF t = "none" THEN FALSE
          ELSE IF \E k \in 1..Len(run.geoms[t]) :
                    pointInPolygon(run.geoms[t][k], polygonCoords)
          THEN TRUE
          ELSE lineIntersectsPolygon(run.geoms[t], polygonCoords)

\* the same for the getRunsInPolygon of the class without a full tier
olderIntersects(run, polygonCoords) ==
  IF centerInPolygon(run.bbox, polygonCoords) THEN TRUE
  ELSE IF \E k \in 1..4 : pointInPolygon(corners(run.bbox)[k], polygonCoords) THEN TRUE
  ELSE LET t == firstPresent(run.geoms, <<"high", "mid", "low">>)
       IN IF t = "none" THEN FALSE
          ELSE \E k \in 1..Len(run.geoms[t]) :
                 pointInPolygon(run.geoms[t][k], polygonCoords)

\* the run is a candidate (its bbox meets the bbox of the polygon) and
\* whether getRunsInPolygon pushes it
callStagedGetRunsInPolygon ==
  LET run == stagedRun(callArgs.track)
      candidate == bboxIntersects(run.bbox, getPolygonBbox(callArgs.polygon))
  IN answer("staged", [candidate |-> candidate,
                       included |-> candidate /\ stagedIntersects(run, callArgs.polygon)])

callOlderGetRunsInPolygon ==
  LET run == olderRun(callArgs.track)
      candidate == bboxIntersects(run.bbox, getPolygonBbox(callArgs.polygon))
  IN answer("older", [candidate |-> candidate,
                      included |-> candidate /\ olderIntersects(run, callArgs.polygon)])

StagedStart ==
  /\ callArgs \in [track : PolyTracks, polygon : Polygons]
  /\ callResult = NoResult

(***************************************************************************)
(* getRunsInPolygon for one stored track and a ring written with and       *)
(* without its first point repeated at the end                             *)
(***************************************************************************)
\* rings written open: the last vertex is not the first one
OpenRings ==
  { <<<<0, 0>>, <<0, 2>>, <<2, 2>>>>,
    <<<<0, 0>>, <<2, 0>>, <<2, 2>>>>,
    <<<<0, 0>>, <<2, 0>>, <<2, 2>>, <<0, 2>>>> }

\* getRunsInPolygon for a loaded index holding the one run of the track:
\* the bbox test against the polygon's bbox, then geometryIntersectsPolygon
\* on the full geometry; the result is whether the run is returned
runInPolygon011(track, polygonCoords) ==
  /\ bboxIntersects(getPolygonBbox(track), getPolygonBbox(polygonCoords))
  /\ geometryIntersectsPolygon011(track, polygonCoords)

callOpenRing == answer("open", runInPolygon011(callArgs.track, callArgs.ring))

\* the same ring with its first point repeated at the end
callClosedRing ==
  answer("closed", runInPolygon011(callArgs.track, Append(callArgs.ring, callArgs.ring[1])))

RingStart ==
  /\ callArgs \in [track : {<<p, q>> : p \in GridPoints, q \in GridPoints}, ring : OpenRings]
  /\ callResult = NoResult

(***************************************************************************)
(* Lasso selection of the web page: drawing mode, the drag that draws the  *)
(* polygon, the /api/runs_in_area request, the side panel, the layer filter *)
(***************************************************************************)
\* the drags of the mouse on the map, as the positions (e.lngLat) of the
\* mouse down and of the mouse moves that follow it: a click, a line, the
\* square of the end-to-end test around the activities, a triangle around
\* the first activity, a triangle around no activity
DragPaths ==
  { << <<10, 10>> >>,
    << <<10, 10>>, <<20, 10>> >>,
    << <<10, 10>>, <<20, 10>>, <<20, 20>>, <<10, 20>> >>,
    << <<17, 11>>, <<20, 12>>, <<19, 15>> >>,
    << <<40, 40>>, <<50, 40>>, <<50, 50>> >> }

\* the activities of the server: id -> track
AreaRuns ==
  (1 :> <<<<18, 12>>, <<19, 13>>>>) @@ (2 :> <<<<12, 17>>, <<13, 18>>>>)

\* the answer of POST /api/runs_in_area: the ids of the activities whose
\* track intersects the polygon
apiRunsInArea(polygon) ==
  {id \in DOMAIN AreaRuns : geometryIntersectsPolygon011(AreaRuns[id], polygon)}

\* the filter updateMapDisplay sets on the layer 'runsVec'
filterFor(open, selected) ==
  IF open
  THEN IF Cardinality(selected) = 0
       THEN [kind |-> "==", id |-> 0 - 1]
       ELSE [kind |-> "in", ids |-> selected]
  ELSE NoFilter

\* click on #lasso-btn: enter drawing mode (attach startDrawing,
\* continueDrawing, finishDrawing to the map) or leave it (exitDrawingMode)
clickLasso ==
  /\ ~mouse.down
  /\ IF ~isDrawingMode
     THEN isDrawingMode' = TRUE /\ UNCHANGED isDrawing
     ELSE isDrawingMode' = FALSE /\ isDrawing' = FALSE
  /\ mouse' = [mouse EXCEPT !.path = <<>>, !.lastEvent = "lasso"]
  /\ UNCHANGED <<lassoCoords, sidebarOpen, panelOpen, selectedRuns, layerFilter,
                 panelCards, checkedCards, areaRequests>>
  /\ UNCHANGED <<cacheVars, workerVars, indexVars, lodVars, polyVars, geomVars, callVars, serverVars>>

\* mouse down on the map at the first position of the drag path:
\* startDrawing runs only if it is attached
mouseDown(path) ==
  /\ ~mouse.down
  /\ mouse.drags < MaxDrags
  /\ mouse' = [down |-> TRUE, path |-> path, at |-> 1, drags |-> mouse.drags + 1,
               lastEvent |-> "mousedown"]
  /\ IF isDrawingMode
     THEN isDrawing' = TRUE /\ lassoCoords' = <<path[1]>>
     ELSE UNCHANGED <<isDrawing, lassoCoords>>
  /\ UNCHANGED <<isDrawingMode, sidebarOpen, panelOpen, selectedRuns, layerFilter,
                 panelCards, checkedCards, areaRequests>>
  /\ UNCHANGED <<cacheVars, workerVars, indexVars, lodVars, polyVars, geomVars, callVars, serverVars>>

\* mouse move to the next position of the drag with the button down:
\* continueDrawing
mouseMove ==
  /\ mouse.down
  /\ mouse.at < Len(mouse.path)
  /\ mouse' = [mouse EXCEPT !.at = @ + 1, !.lastEvent = "mousemove"]
  /\ IF isDrawing /\ isDrawingMode
     THEN lassoCoords' = Append(lassoCoords, mouse.path[mouse.at + 1])
     ELSE UNCHANGED lassoCoords
  /\ UNCHANGED <<isDrawingMode, isDrawing, sidebarOpen, panelOpen, selectedRuns,
                 layerFilter, panelCards, checkedCards, areaRequests>>
  /\ UNCHANGED <<cacheVars, workerVars, indexVars, lodVars, polyVars, geomVars, callVars, serverVars>>

\* mouse up: finishDrawing closes the polygon, posts the request of
\* queryRunsInArea and leaves drawing mode
mouseUp ==
  /\ mouse.down
  /\ mouse.at = Len(mouse.path)
  /\ mouse' = [mouse EXCEPT !.down = FALSE, !.lastEvent = "mouseup"]
  /\ IF isDrawing /\ isDrawingMode
     THEN /\ isDrawing' = FALSE
          /\ isDrawingMode' = FALSE
          /\ IF Len(lassoCoords) >= 3
             THEN /\ lassoCoords' = Append(lassoCoords, lassoCoords[1])
                  /\ areaRequests' = areaRequests \cup
                       {[n |-> mouse.drags, polygon |-> Append(lassoCoords, lassoCoords[1])]}
             ELSE UNCHANGED <<lassoCoords, areaRequests>>
     ELSE UNCHANGED <<isDrawing, isDrawingMode, lassoCoords, areaRequests>>
  /\ UNCHANGED <<sidebarOpen, panelOpen, selectedRuns, layerFilter, panelCards,
                 checkedCards>>
  /\ UNCHANGED <<cacheVars, workerVars, indexVars, lodVars, polyVars, geomVars, callVars, serverVars>>

\* queryRunsInArea after the response (response.ok): the panel is opened and
\* displayRunsInPanel(data.runs) lists the runs; with no runs it returns
\* before selectedRuns and the map are touched
areaResolved(r) ==
  /\ areaRequests' = areaRequests \ {r}
  /\ panelOpen' = TRUE
  /\ sidebarOpen' = TRUE
  /\ LET found == apiRunsInArea(r.polygon)
     IN /\ panelCards' = found
        /\ checkedCards' = found
        /\ IF found = {}
           THEN UNCHANGED <<selectedRuns, layerFilter>>
           ELSE /\ selectedRuns' = selectedRuns \cup found
                /\ layerFilter' = filterFor(TRUE, selectedRuns \cup found)
  /\ mouse' = [mouse EXCEPT !.path = <<>>, !.lastEvent = "response"]
  /\ UNCHANGED <<isDrawingMode, isDrawing, lassoCoords>>
  /\ UNCHANGED <<cacheVars, workerVars, indexVars, lodVars, polyVars, geomVars, callVars, serverVars>>

\* queryRunsInArea when the response is not ok or fetch rejects: an alert
areaFailed(r) ==
  /\ areaRequests' = areaRequests \ {r}
  /\ mouse' = [mouse EXCEPT !.path = <<>>, !.lastEvent = "error"]
  /\ UNCHANGED <<isDrawingMode, isDrawing, lassoCoords, sidebarOpen, panelOpen,
                 selectedRuns, layerFilter, panelCards, checkedCards>>
  /\ UNCHANGED <<cacheVars, workerVars, indexVars, lodVars, polyVars, geomVars, callVars, serverVars>>

\* change of the checkbox of the card of run id
toggleCheckbox(id) ==
  /\ panelOpen
  /\ id \in panelCards
  /\ IF id \in checkedCards
     THEN /\ checkedCards' = checkedCards \ {id}
          /\ selectedRuns' = selectedRuns \ {id}
     ELSE /\ checkedCards' = checkedCards \cup {id}
          /\ selectedRuns' = selectedRuns \cup {id}
  /\ layerFilter' = filterFor(sidebarOpen, selectedRuns')
  /\ mouse' = [mouse EXCEPT !.path = <<>>, !.lastEvent = "checkbox"]
  /\ UNCHANGED <<isDrawingMode, isDrawing, lassoCoords, sidebarOpen, panelOpen,
                 panelCards, areaRequests>>
  /\ UNCHANGED <<cacheVars, workerVars, indexVars, lodVars, polyVars, geomVars, callVars, serverVars>>

\* click on #select-all: every unchecked checkbox is checked and its change
\* handler runs (selectedRuns.add, updateMapDisplay)
selectAll ==
  /\ panelOpen
  /\ checkedCards' = panelCards
  /\ selectedRuns' = selectedRuns \cup (panelCards \ checkedCards)
  /\ layerFilter' = IF panelCards \ checkedCards # {}
                    THEN filterFor(sidebarOpen, selectedRuns')
                    ELSE layerFilter
  /\ mouse' = [mouse EXCEPT !.path = <<>>, !.lastEvent = "selectAll"]
  /\ UNCHANGED <<isDrawingMode, isDrawing, lassoCoords, sidebarOpen, panelOpen,
                 panelCards, areaRequests>>
  /\ UNCHANGED <<cacheVars, workerVars, indexVars, lodVars, polyVars, geomVars, callVars, serverVars>>

\* click on #deselect-all: every checked checkbox is unchecked and its
\* change handler runs (selectedRuns.delete, updateMapDisplay)
deselectAll ==
  /\ panelOpen
  /\ checkedCards' = {}
  /\ selectedRuns' = selectedRuns \ checkedCards
  /\ layerFilter' = IF checkedCards # {}
                    THEN filterFor(sidebarOpen, selectedRuns')
                    ELSE layerFilter
  /\ mouse' = [mouse EXCEPT !.path = <<>>, !.lastEvent = "deselectAll"]
  /\ UNCHANGED <<isDrawingMode, isDrawing, lassoCoords, sidebarOpen, panelOpen,
                 panelCards, areaRequests>>
  /\ UNCHANGED <<cacheVars, workerVars, indexVars, lodVars, polyVars, geomVars, callVars, serverVars>>

\* clearSelection(): click on #clear-selection-btn or on #panel-close
clearSelection ==
  /\ ~mouse.down
  /\ lassoCoords' = <<>>
  /\ panelOpen' = FALSE
  /\ sidebarOpen' = FALSE
  /\ selectedRuns' = {}
  /\ layerFilter' = filterFor(FALSE, {})
  /\ mouse' = [mouse EXCEPT !.path = <<>>, !.lastEvent = "clearSelection"]
  /\ UNCHANGED <<isDrawingMode, isDrawing, panelCards, checkedCards, areaRequests>>
  /\ UNCHANGED <<cacheVars, workerVars, indexVars, lodVars, polyVars, geomVars, callVars, serverVars>>

(***************************************************************************)
(* HTTP range server plugin: startServer, stopServer, getServerStatus and  *)
(* the accept loop of the background thread                                *)
(***************************************************************************)
\* startServer: the early return while isRunning; otherwise new
\* ServerSocket(port), isRunning = true and the accept loop is submitted,
\* or new ServerSocket throws IOException and the call is rejected
startServer ==
  /\ IF isRunning
     THEN /\ lastCall' = [call |-> "startServer", success |-> TRUE]
          /\ UNCHANGED <<isRunning, serverSocket, acceptLoops>>
     ELSE \/ /\ serverSocket.n < MaxStarts
             /\ serverSocket' = [n |-> serverSocket.n + 1, open |-> TRUE]
             /\ isRunning' = TRUE
             /\ acceptLoops' = acceptLoops \cup {serverSocket.n + 1}
             /\ lastCall' = [call |-> "startServer", success |-> TRUE]
          \/ /\ lastCall' = [call |-> "startServer", success |-> FALSE]
             /\ UNCHANGED <<isRunning, serverSocket, acceptLoops>>
  /\ UNCHANGED <<cacheVars, workerVars, indexVars, lodVars, polyVars, geomVars, callVars, uiVars>>

\* stopServer: while isRunning it clears the flag, closes the socket and
\* shuts the executor down (running tasks go on); otherwise it only answers
stopServer ==
  /\ IF isRunning
     THEN /\ isRunning' = FALSE
          /\ serverSocket' = [serverSocket EXCEPT !.open = FALSE]
          /\ lastCall' = [call |-> "stopServer", success |-> TRUE]
          /\ UNCHANGED acceptLoops
     ELSE /\ lastCall' = [call |-> "stopServer", success |-> FALSE]
          /\ UNCHANGED <<isRunning, serverSocket, acceptLoops>>
  /\ UNCHANGED <<cacheVars, workerVars, indexVars, lodVars, polyVars, geomVars, callVars, uiVars>>

\* serverSocket.accept() of the loop on socket l throws IOException (the
\* socket was closed by stopServer, or accepting failed): catch, break
acceptFailed(l) ==
  /\ l \in acceptLoops
  /\ acceptLoops' = acceptLoops \ {l}
  /\ lastCall' = [call |-> "accept", success |-> FALSE]
  /\ UNCHANGED <<isRunning, serverSocket>>
  /\ UNCHANGED <<cacheVars, workerVars, indexVars, lodVars, polyVars, geomVars, callVars, uiVars>>

\* getServerStatus: running is the flag
getServerStatus ==
  /\ lastCall' = [call |-> "getServerStatus", running |-> isRunning]
  /\ UNCHANGED <<isRunning, serverSocket, acceptLoops>>
  /\ UNCHANGED <<cacheVars, workerVars, indexVars, lodVars, polyVars, geomVars, callVars, uiVars>>

\* the plugin after load()
ServerIdle ==
  /\ isRunning = FALSE
  /\ serverSocket = [n |-> 0, open |-> FALSE]
  /\ acceptLoops = {}
  /\ lastCall = [call |-> "load"]

CacheStart ==
  /\ view = mkView(0, 0)
  /\ zoom = 10
  /\ caches = [k \in {} |-> 0]
  /\ cacheOrder = <<>>
  /\ lastCenter = <<>>
  /\ lastZoom = NoZoom
  /\ activeController = 0
  /\ inflight = {}
  /\ displayed = {}
  /\ serverRuns = ServerData
  /\ moves = 0
  /\ useOrder = <<>>
  /\ storeOrder = <<>>
  /\ lastOp = [op |-> "init", aborted |-> FALSE, evicted |-> NoZoom]

InitCache == CacheStart /\ WorkerStart /\ IndexLoaded /\ LodIdle /\ PolyIdle /\ GeomIdle /\ CallIdle /\ UiIdle /\ ServerIdle

NextCache ==
  \/ \E v \in Views, z \in Zooms : fetchAndUpdate(v, z)
  \/ \E r \in inflight : fetchResolved(r)
  \/ \E r \in inflight : fetchFailed(r)

SpecCache == InitCache /\ [][NextCache]_vars

\* the page with a server that answers every request that is not aborted
NextCacheOk ==
  \/ \E v \in Views, z \in Zooms : fetchAndUpdate(v, z)
  \/ \E r \in inflight : fetchResolved(r)

SpecCacheOk == InitCache /\ [][NextCacheOk]_vars

\* the page while activities are uploaded to the server
NextCacheInsert ==
  \/ \E v \in Views, z \in Zooms : fetchAndUpdate(v, z)
  \/ \E r \in inflight : fetchResolved(r)
  \/ \E a \in NewActivities : insertActivity(a)

SpecCacheInsert == InitCache /\ [][NextCacheInsert]_vars

InitWorker == WorkerStart /\ CacheStart /\ IndexLoaded /\ LodIdle /\ PolyIdle /\ GeomIdle /\ CallIdle /\ UiIdle /\ ServerIdle

NextWorker ==
  \/ loadRuns
  \/ loadIndex
  \/ workerAdd
  \/ workerOnQuery
  \/ \E r \in AddedRuns : postAdd(r)
  \/ \E b \in QueryBoxes, z \in QueryZooms : getRunsForBoundsAsync(b, z)
  \/ \E b \in QueryBoxes, z \in QueryZooms, f \in QueryFilters :
       f # <<>> /\ filterRunsByIds(f[1], b, z)
  \/ handleWorkerMessage

SpecWorker == InitWorker /\ [][NextWorker]_vars

\* the worker and the main thread with fair scheduling: the fetches of load()
\* settle and every message posted to either side is eventually handled
SpecWorkerLive ==
  InitWorker /\ [][NextWorker]_vars
    /\ WF_vars(loadRuns) /\ WF_vars(loadIndex)
    /\ WF_vars(workerAdd) /\ WF_vars(workerOnQuery)
    /\ WF_vars(handleWorkerMessage)

InitIndex == IndexStart /\ CacheStart /\ WorkerStart /\ LodIdle /\ PolyIdle /\ GeomIdle /\ CallIdle /\ UiIdle /\ ServerIdle

NextIndex ==
  \/ construct
  \/ loadData
  \/ \E coords \in Tracks : addRun(coords)
  \/ \E c \in adding : addRunSynced(c)
  \/ \E c \in adding : addRunSyncFailed(c)
  \/ \E c \in adding : addRunReloaded(c)

SpecIndex == InitIndex /\ [][NextIndex]_vars

NextIndex009 ==
  \/ construct
  \/ loadData
  \/ \E coords \in Tracks : addRun009(coords)
  \/ \E c \in adding : addRun009Synced(c)
  \/ \E c \in adding : addRun009Failed(c)
  \/ \E c \in adding : addRun009Reloaded(c)

SpecIndex009 == InitIndex /\ [][NextIndex009]_vars

\* a viewport query through the worker by a caller that awaits the previous
\* query: nothing is pending or in the channels when it is issued
awaitedQuery(bbox, z) ==
  /\ pending = 0
  /\ toWorker = <<>>
  /\ toMain = <<>>
  /\ getRunsForBoundsAsync(bbox, z)

\* the SpatialIndex of part_011 after startup together with the worker:
\* addRun posts nothing to the worker (this.worker is never assigned and
\* addRun has no postMessage), so the 'add' handler never runs here
NextMirror ==
  \/ \E coords \in Tracks : addRun(coords)
  \/ \E c \in adding : addRunSynced(c)
  \/ \E c \in adding : addRunSyncFailed(c)
  \/ \E c \in adding : addRunReloaded(c)
  \/ loadRuns
  \/ loadIndex
  \/ workerOnQuery
  \/ awaitedQuery(<<12, 4, 20, 20>>, 12)
  \/ handleWorkerMessage

SpecMirror == InitWorker /\ [][NextMirror]_vars

NextIndex010 ==
  \/ construct010
  \/ loadData010
  \/ \E coords \in Tracks010 : addRun010(coords)
  \/ \E polygonCoords \in Polygons : callGetRunsInPolygon(polygonCoords)

SpecIndex010 == InitIndex /\ [][NextIndex010]_vars

InitGeoms == GeomStart /\ CacheStart /\ WorkerStart /\ IndexLoaded /\ LodIdle /\ PolyIdle /\ CallIdle /\ UiIdle /\ ServerIdle

NextGeoms ==
  \/ addRunGeoms
  \/ addRunGeomsOld

SpecGeoms == InitGeoms /\ [][NextGeoms]_vars

InitLod == LodStart /\ CacheStart /\ WorkerStart /\ IndexLoaded /\ PolyIdle /\ GeomIdle /\ CallIdle /\ UiIdle /\ ServerIdle

NextLod == selectGeometry

SpecLod == InitLod /\ [][NextLod]_vars

InitZoom == ZoomStart /\ CacheStart /\ WorkerStart /\ IndexLoaded /\ LodIdle /\ PolyIdle /\ GeomIdle /\ UiIdle /\ ServerIdle

NextZoom ==
  \/ callGetZoomLevel
  \/ callWorkerGetZoomLevel
  \/ callGetZoomLevel012

SpecZoom == InitZoom /\ [][NextZoom]_vars

InitBbox == BboxStart /\ CacheStart /\ WorkerStart /\ IndexLoaded /\ LodIdle /\ PolyIdle /\ GeomIdle /\ UiIdle /\ ServerIdle

NextBbox ==
  \/ callBboxIntersects
  \/ callWorkerBboxIntersects

SpecBbox == InitBbox /\ [][NextBbox]_vars

InitSegments == SegmentsStart /\ CacheStart /\ WorkerStart /\ IndexLoaded /\ LodIdle /\ PolyIdle /\ GeomIdle /\ UiIdle /\ ServerIdle

NextSegments ==
  \/ callSegmentsIntersect
  \/ callSegmentsIntersect010

SpecSegments == InitSegments /\ [][NextSegments]_vars

InitStaged == StagedStart /\ CacheStart /\ WorkerStart /\ IndexLoaded /\ LodIdle /\ PolyIdle /\ GeomIdle /\ UiIdle /\ ServerIdle

NextStaged ==
  \/ callStagedGetRunsInPolygon
  \/ callOlderGetRunsInPolygon

SpecStaged == InitStaged /\ [][NextStaged]_vars

InitRing == RingStart /\ CacheStart /\ WorkerStart /\ IndexLoaded /\ LodIdle /\ PolyIdle /\ GeomIdle /\ UiIdle /\ ServerIdle

NextRing ==
  \/ callOpenRing
  \/ callClosedRing

SpecRing == InitRing /\ [][NextRing]_vars

InitServer == ServerIdle /\ CacheStart /\ WorkerStart /\ IndexLoaded /\ LodIdle /\ PolyIdle /\ GeomIdle /\ CallIdle /\ UiIdle

NextServer ==
  \/ startServer
  \/ stopServer
  \/ \E l \in acceptLoops : acceptFailed(l)
  \/ getServerStatus

SpecServer == InitServer /\ [][NextServer]_vars

InitLasso == UiIdle /\ CacheStart /\ WorkerStart /\ IndexLoaded /\ LodIdle /\ PolyIdle /\ GeomIdle /\ CallIdle /\ ServerIdle

NextLasso ==
  \/ clickLasso
  \/ \E path \in DragPaths : mouseDown(path)
  \/ mouseMove
  \/ mouseUp
  \/ \E r \in areaRequests : areaResolved(r)
  \/ \E r \in areaRequests : areaFailed(r)
  \/ \E id \in DOMAIN AreaRuns : toggleCheckbox(id)
  \/ selectAll
  \/ deselectAll
  \/ clearSelection

SpecLasso == InitLasso /\ [][NextLasso]_vars

\* the page with a server that answers: every posted request is eventually
\* handled
SpecLassoLive ==
  InitLasso /\ [][NextLasso]_vars
    /\ WF_vars(\E r \in areaRequests : areaResolved(r) \/ areaFailed(r))

(***************************************************************************)
(* Properties of the viewport cache and the network path                   *)
(***************************************************************************)

\* C2: on the network path at most one request is in flight, and it is the
\* one of the active controller (starting a request aborts the previous
\* one); a response is applied (storeCache, setData) only if it answers the
\* latest request issued.
C2_LastRequestWins ==
  /\ [](Cardinality(inflight) <= 1 /\ \A r \in inflight : r.id = activeController)
  /\ [][\A r \in inflight :
          (r \notin inflight' /\ lastOp'.op = "applied") => r.id = activeController]_vars

\* a request was started while another one was in flight, which it aborted
C2_Witness == lastOp.aborted /\ Cardinality(inflight) = 1

\* C5: whenever the cache serves data for a viewport at a zoom, the ids
\* served include every id a fresh viewport query for that viewport and zoom
\* returns from the same store.
C5_CacheNeverSmaller ==
  \A v \in Views, z \in Zooms :
    getCached(v, z).hit => apiRuns(boundsBbox(v), z) \subseteq getCached(v, z).data

\* the last move was served from the cache with data that is not empty
C5_Witness ==
  /\ lastOp.op \in {"hit", "hitRefetch"}
  /\ getCached(view, zoom).hit
  /\ displayed = getCached(view, zoom).data
  /\ apiRuns(boundsBbox(view), zoom) # {}

\* C6 as stated: the cache serves an entry for viewport v at zoom z iff some
\* entry has a tier at least tierOf(z) and bounds containing v.
C6_ValidIffTier ==
  \A v \in Views, z \in Zooms :
    getCached(v, z).hit <=>
      \E k \in DOMAIN caches :
        /\ tierRank(getZoomLevel(k)) >= tierRank(getZoomLevel(z))
        /\ withinBounds(caches[k].bounds, v)

\* C6 amended: the cache serves an entry for viewport v at zoom z iff some
\* entry has an integer zoom key at least z and bounds containing v.
C6_ValidIffZoom ==
  \A v \in Views, z \in Zooms :
    getCached(v, z).hit <=>
      \E k \in DOMAIN caches : k >= z /\ withinBounds(caches[k].bounds, v)

\* a move was served from the cache while, for another zoom, an entry whose
\* bounds contain the viewport is not served because its zoom key is lower
C6_Witness ==
  /\ lastOp.op \in {"hit", "hitRefetch"}
  /\ \E z \in Zooms :
       /\ ~getCached(view, z).hit
       /\ \E k \in DOMAIN caches : withinBounds(caches[k].bounds, view)

\* C7: the cache holds at most MAX_CACHES entries, the keys of caches are
\* the elements of cacheOrder, and cacheOrder has no duplicates.
C7_CacheBounded ==
  /\ Cardinality(DOMAIN caches) <= MAX_CACHES
  /\ DOMAIN caches = Range(cacheOrder)
  /\ \A i, j \in 1..Len(cacheOrder) : cacheOrder[i] = cacheOrder[j] => i = j

\* a store into a full cache has just evicted an entry
C7_Witness == lastOp.evicted # NoZoom /\ Len(cacheOrder) = MAX_CACHES

\* C8 as stated: an evicted entry is the least recently used one, where a
\* cache hit counts as a use.
C8_EvictsLeastRecentlyUsed ==
  [][\A k \in DOMAIN caches :
       k \notin DOMAIN caches' => k = useOrder[Len(useOrder)]]_vars

\* C8 amended: an evicted entry is the least recently stored one.
C8_EvictsLeastRecentlyStored ==
  [][\A k \in DOMAIN caches :
       k \notin DOMAIN caches' => k = storeOrder[Len(storeOrder)]]_vars

\* an entry was evicted while the least recently stored entry had been
\* served by a hit after the others were stored
C8_Witness ==
  /\ lastOp.evicted # NoZoom
  /\ Len(useOrder) = MAX_CACHES
  /\ useOrder # storeOrder

\* the viewport v at zoom z is covered by a cache entry
Covered(v, z) == \E k \in DOMAIN caches : k >= z /\ withinBounds(caches[k].bounds, v)

\* the centre of v is more than 20% of the span away from the centre of the
\* last applied fetch in an axis, or z is not the zoom of that fetch
MovedFar(v, z) ==
  /\ lastCenter # <<>>
  /\ \/ 5 * Abs((v.south + v.north) - lastCenter[1].lat2) > 2 * (v.north - v.south)
     \/ 5 * Abs((v.west + v.east) - lastCenter[1].lng2) > 2 * (v.east - v.west)
     \/ z # lastZoom

\* C9: a move to a viewport that a cache entry covers displays cached data
\* at once, and issues a fetch iff the centre moved more than 20% of the
\* span in an axis or the zoom changed since the last applied fetch.
C9_ServeThenRefresh ==
  [][(moves' = moves + 1 /\ Covered(view', zoom')) =>
       /\ \E k \in DOMAIN caches :
            /\ k >= zoom' /\ withinBounds(caches[k].bounds, view')
            /\ displayed' = caches[k].data
       /\ (activeController' # activeController) <=> MovedFar(view', zoom')
       /\ (activeController' # activeController) =>
            \E r \in inflight' : r.id = activeController' /\ r.z = zoom']_vars

\* a move displayed cached data and issued a background refetch
C9_Witness ==
  /\ lastOp.op = "hitRefetch"
  /\ displayed = getCached(view, zoom).data
  /\ \E r \in inflight : r.id = activeController

\* C19: when a viewport fetch fails with an error other than an abort, the
\* data displayed on the map, the cache (caches, cacheOrder) and
\* lastCenter/lastZoom are what they were before the failure was handled.
C19_FailedFetchKeepsResult ==
  [][(lastOp'.op = "failed" /\ \E r \in inflight : inflight' = inflight \ {r})
       => UNCHANGED <<displayed, caches, cacheOrder, lastCenter, lastZoom>>]_vars

\* a fetch has just failed while data was displayed and the cache held an entry
C19_Witness ==
  /\ lastOp.op = "failed"
  /\ displayed # {}
  /\ cacheOrder # <<>>
  /\ lastCenter # <<>>

(***************************************************************************)
(* Properties of the worker-backed query path                              *)
(***************************************************************************)

\* C1: a query issued before the previous one was resolved is resolved with
\* exactly the features the worker emitted for its own request, and with no
\* feature the worker emitted for another request.
C1_OnlyLatestQueryApplied ==
  \A p \in DOMAIN resolved \cap overlapped :
    /\ p \in DOMAIN emitted
    /\ resolved[p] = emitted[p]
    /\ \A i \in 1..Len(resolved[p]) : resolved[p][i].req = p

\* C18: handling a message in the worker, whatever the position of the
\* asynchronous load, never raises an exception out of the handler.
C18_NoUncaughtWorkerError == wErrors = 0

\* the worker handles the query message at the head of its queue
QueryHandled ==
  /\ toWorker # <<>>
  /\ Head(toWorker).type = "query"
  /\ toWorker' = Tail(toWorker)

\* the messages the worker posts in the step
posted == SubSeq(toMain', Len(toMain) + 1, Len(toMain'))

\* the entry's run qualifies for the query msg: its index bbox meets the
\* query bbox, its id passes the filter, the store has it with a non-empty
\* geometry and a bbox meeting the query bbox
qualifies(e, msg) ==
  /\ bboxIntersects(e.bbox, msg.bbox)
  /\ msg.filterIds # <<>> => e.id \in msg.filterIds[1]
  /\ e.id \in DOMAIN runs
  /\ workerFeatureTier(runs[e.id].geoms, msg.zoom) # "none"
  /\ bboxIntersects(runs[e.id].bbox, msg.bbox)

\* the ids of the qualifying entries in the order of the index
qualifyingIds(msg) ==
  LET q == SelectSeq(tree, LAMBDA e : qualifies(e, msg))
  IN [i \in 1..Len(q) |-> q[i].id]

chunksComplete(msgs, msg) ==
  LET fs == chunkFeatures(msgs)
  IN /\ \A i \in 1..Len(msgs) :
          msgs[i].type = "chunk" =>
            Len(msgs[i].features) >= 1 /\ Len(msgs[i].features) <= msg.batch
     /\ [i \in 1..Len(fs) |-> fs[i].id] = qualifyingIds(msg)
     /\ Cardinality({i \in 1..Len(msgs) : msgs[i].type = "complete"}) = 1
     /\ msgs # <<>> /\ msgs[Len(msgs)].type = "complete"

\* C21: for every query the worker handles, each chunk it posts carries
\* between 1 and batch features, the chunks together carry the qualifying
\* features once each in order, and exactly one 'complete' is posted, after
\* all chunk and progress messages of the query
C21_ChunksComplete ==
  [][QueryHandled => chunksComplete(posted, Head(toWorker))]_vars

\* C22: whenever the worker runs a query, the ids of its index and the ids
\* of its store are the same: no insert is seen half done
C22_NoTornInsert ==
  [][(QueryHandled /\ runsSet /\ treeSet)
       => {tree[i].id : i \in 1..Len(tree)} = DOMAIN runs]_vars

(***************************************************************************)
(* Properties of the main-thread SpatialIndex                              *)
(***************************************************************************)
IndexIds == {spatialIndex[i].id : i \in 1..Len(spatialIndex)}

StoreIds == {userRuns[i].id : i \in 1..Len(userRuns)}

\* C3: once every loadData and addRun call has returned, whatever the
\* outcome of the server sync and of the tile reload, the ids in the
\* spatial index are the ids in the activity store.
C3_IndexStoreConsistent == adding = {} => IndexIds = StoreIds

\* C4: once loadData has run and every addRun has returned, every stored
\* activity built from at least 2 points whose bbox intersects a query bbox
\* is among the features of the viewport query for that bbox, at every zoom.
C4_ViewportComplete ==
  (loaded /\ adding = {}) =>
    \A i \in 1..Len(userRuns) : \A b \in IndexBoxes, z \in IndexZooms :
      (Len(userRuns[i].geoms["full"]) >= 2 /\ bboxIntersects(userRuns[i].bbox, b))
        => userRuns[i].id \in featureIds(getRunsForBounds(b, z))

\* the step in which the addRun call c, suspended at updateServerData,
\* returns after the server sync was rejected
SyncFailedStep(c) ==
  /\ c \in adding
  /\ c.at = "updateServerData"
  /\ adding' = adding \ {c}
  /\ nextId' = nextId
  /\ loaded' = loaded

\* C14: when the server sync fails inside addRun, the call returns with the
\* activity still in the spatial index and in the store (so that the
\* viewport and polygon queries, which walk the index, can return it).
C14_SoftFailureKeepsRun ==
  [][\A c \in adding :
       SyncFailedStep(c) => (c.id \in IndexIds' /\ c.id \in StoreIds')]_vars

\* C13: every activity that addRun has added and that is in the store when
\* the call has returned was mirrored to the worker: an 'add' message for
\* it is on its way to the worker, or the worker's index holds its entry
\* (so that a worker query whose bbox intersects its bbox finds it).
C13_WorkerMirrorsAdds ==
  \A i \in 1..Len(userRuns) :
    (\A c \in adding : c.id # userRuns[i].id) =>
      \/ \E j \in 1..Len(toWorker) :
           /\ toWorker[j].type = "add"
           /\ toWorker[j].run.id = userRuns[i].id
           /\ toWorker[j].run.bbox = userRuns[i].bbox
      \/ \E j \in 1..Len(tree) :
           tree[j] = [id |-> userRuns[i].id, bbox |-> userRuns[i].bbox]

(***************************************************************************)
(* Properties of the session-only SpatialIndex and of the polygon query    *)
(***************************************************************************)
\* twice the signed area of the triangle a, b, p
cross(a, b, p) == (b[1] - a[1]) * (p[2] - a[2]) - (b[2] - a[2]) * (p[1] - a[1])

\* P is a closed ring whose vertices all lie on one side of every edge
isConvex(P) ==
  /\ Len(P) >= 4
  /\ P[1] = P[Len(P)]
  /\ \/ \A k \in 1..(Len(P) - 1), m \in 1..Len(P) : cross(P[k], P[k + 1], P[m]) >= 0
     \/ \A k \in 1..(Len(P) - 1), m \in 1..Len(P) : cross(P[k], P[k + 1], P[m]) <= 0

\* the point lies in the interior of the convex ring P
strictlyInside(point, P) ==
  \/ \A k \in 1..(Len(P) - 1) : cross(P[k], P[k + 1], point) > 0
  \/ \A k \in 1..(Len(P) - 1) : cross(P[k], P[k + 1], point) < 0

\* the track has points and all of them lie in the interior of P
trackInside(track, P) ==
  /\ track # <<>>
  /\ \A k \in 1..Len(track) : strictlyInside(track[k], P)

\* no point of the track is in the interior of P, but a segment of the
\* track meets an edge of P
trackTouchesOnly(track, P) ==
  /\ \A k \in 1..Len(track) : ~strictlyInside(track[k], P)
  /\ \E i \in 2..Len(track), j \in 2..Len(P) :
       segmentsIntersect(track[i - 1], track[i], P[j - 1], P[j])

\* C11: once the index is loaded, for every convex lasso polygon P the
\* result of getRunsInPolygon(P) holds the id of every stored activity
\* whose full geometry lies inside P.
C11_PolygonInclusion ==
  loaded =>
    \A P \in Polygons : isConvex(P) =>
      \A i \in 1..Len(userRuns) :
        trackInside(userRuns[i].geoms["full"], P)
          => userRuns[i].id \in featureIds(getRunsInPolygon(P))

\* getRunsInPolygon has just returned, for a convex polygon, an activity
\* whose track lies inside the polygon, and left out another stored activity
C11_Witness ==
  /\ polyOut # NoPoly
  /\ isConvex(polyOut.poly)
  /\ \E i \in 1..Len(userRuns) :
       /\ trackInside(userRuns[i].geoms["full"], polyOut.poly)
       /\ userRuns[i].id \in polyOut.ids
  /\ \E i \in 1..Len(userRuns) : userRuns[i].id \notin polyOut.ids

\* C12: once the index is loaded, an activity whose track touches or
\* crosses an edge of the lasso polygon without a track point in the
\* interior of the polygon is in the result of getRunsInPolygon.
C12_BoundaryInclusive ==
  loaded =>
    \A P \in Polygons : isConvex(P) =>
      \A i \in 1..Len(userRuns) :
        trackTouchesOnly(userRuns[i].geoms["full"], P)
          => userRuns[i].id \in featureIds(getRunsInPolygon(P))

\* C15: after a restart of the page (a new SpatialIndex and loadData), the
\* tracks that were in the store when the page was left are in the store.
C15_UploadsPersist == loaded => uploaded \subseteq storedTracks

\* C16: every id addRun has assigned to an activity in the store is at
\* least LOCAL_ID_BASE, and no two activities in the store share an id.
C16_LocalIdsReserved ==
  /\ \A i \in 1..Len(userRuns) : userRuns[i].id >= LOCAL_ID_BASE
  /\ \A i, j \in 1..Len(userRuns) : userRuns[i].id = userRuns[j].id => i = j

\* C17: no activity built from fewer than 2 points is in the store, and
\* every entry of the spatial index is that of a stored activity with at
\* least 2 points.
C17_DegenerateRejected ==
  /\ \A i \in 1..Len(userRuns) : Len(userRuns[i].geoms["full"]) >= 2
  /\ \A k \in 1..Len(spatialIndex) :
       \E i \in 1..Len(userRuns) :
         /\ userRuns[i].id = spatialIndex[k].id
         /\ Len(userRuns[i].geoms["full"]) >= 2

\* the point counts of the tiers do not increase from full to low
tiersMonotone(geoms) ==
  /\ Len(geoms["full"]) >= Len(geoms["high"])
  /\ Len(geoms["high"]) >= Len(geoms["mid"])
  /\ Len(geoms["mid"]) >= Len(geoms["low"])

\* C20: for every track, the tiers addRun builds have the original points
\* as full and point counts that do not increase from full to high to mid
\* to low, with the tolerances of either version of addRun.
C20_TiersMonotone ==
  \A v \in DOMAIN simpOut :
    /\ simpOut[v]["full"] = simpIn
    /\ tiersMonotone(simpOut[v])

\* both versions of addRun have built tiers whose point counts decrease
\* strictly from full to low
C20_Witness ==
  /\ DOMAIN simpOut = {"cur", "old"}
  /\ \A v \in DOMAIN simpOut :
       /\ Len(simpOut[v]["full"]) > Len(simpOut[v]["mid"])
       /\ Len(simpOut[v]["mid"]) > Len(simpOut[v]["low"])
  /\ Len(simpOut["cur"]["full"]) > Len(simpOut["cur"]["high"])

(***************************************************************************)
(* Properties of the geometry selection                                    *)
(***************************************************************************)
hasTwoPoints(geoms, t) == t \in DOMAIN geoms /\ Len(geoms[t]) >= 2

\* the first tier of mid, low, high, full with at least 2 points
firstUsable(geoms) ==
  IF hasTwoPoints(geoms, "mid") THEN "mid"
  ELSE IF hasTwoPoints(geoms, "low") THEN "low"
  ELSE IF hasTwoPoints(geoms, "high") THEN "high"
  ELSE IF hasTwoPoints(geoms, "full") THEN "full"
  ELSE "none"

\* C10: when the geometry of the tier selected for the zoom has fewer than
\* 2 points, the geometry a viewport or id-filtered query returns for the
\* activity is the first tier of mid, low, high, full with at least 2 points.
C10_LodFallback ==
  (/\ lodOut # NoOut
   /\ getZoomLevel(lodZoom) \in DOMAIN lodGeoms
   /\ Len(lodGeoms[getZoomLevel(lodZoom)]) < 2
   /\ firstUsable(lodGeoms) # "none")
  => \A impl \in DOMAIN lodOut : lodOut[impl] = firstUsable(lodGeoms)

(***************************************************************************)
(* Properties of the pure functions                                        *)
(***************************************************************************)
\* the tier the thresholds 15, 13, 10 give a zoom
tierOf(z) ==
  CASE z >= 15 -> "full"
    [] z >= 13 /\ z < 15 -> "high"
    [] z >= 10 /\ z < 13 -> "mid"
    [] z < 10 -> "low"

\* C28: every implementation of getZoomLevel maps a zoom of at least 15 to
\* full, of 13 or 14 to high, of 10 to 12 to mid and a lower zoom to low, so
\* that the main-thread implementations and the worker agree for every zoom
C28_ZoomTiers ==
  \A impl \in DOMAIN callResult :
    "zoom" \in DOMAIN callArgs => callResult[impl] = tierOf(callArgs.zoom)

wellFormed(b) == b[1] <= b[3] /\ b[2] <= b[4]

\* box a lies strictly to the left of, to the right of, below or above box b
strictlyApart(a, b) ==
  \/ a[3] < b[1]
  \/ b[3] < a[1]
  \/ a[4] < b[2]
  \/ b[4] < a[2]

\* well-formed boxes that share boundary points only
touching(a, b) ==
  /\ wellFormed(a) /\ wellFormed(b)
  /\ ~strictlyApart(a, b)
  /\ a[3] = b[1] \/ b[3] = a[1] \/ a[4] = b[2] \/ b[4] = a[2]

\* C29: bboxIntersects(a, b) is false exactly when one box lies strictly to
\* the left of, right of, above or below the other; boxes that only touch
\* intersect; the test is symmetric; a well-formed box intersects itself
C29_BboxOverlap ==
  \A impl \in DOMAIN callResult :
    "a" \in DOMAIN callArgs =>
      LET a == callArgs.a
          b == callArgs.b
          r == callResult[impl]
      IN /\ r.ab = ~strictlyApart(a, b)
         /\ touching(a, b) => r.ab
         /\ r.ab = r.ba
         /\ wellFormed(a) => r.aa

\* both implementations have answered for two distinct boxes touching in a
\* corner only
C29_Witness ==
  /\ DOMAIN callResult = {"main", "worker"}
  /\ "a" \in DOMAIN callArgs
  /\ callArgs.a = <<0, 0, 1, 1>>
  /\ callArgs.b = <<1, 1, 2, 2>>
  /\ callResult["main"].ab

\* the denominator that makes the parameters of a common point of the
\* segments p1p2, p3p4 whole numbers: the determinant of the directions, or
\* for parallel segments a common multiple of the coordinate differences
RECURSIVE factorial(_)
factorial(n) == IF n <= 1 THEN 1 ELSE n * factorial(n - 1)

denominator(p1, p2, p3, p4) ==
  LET det == (p2[1] - p1[1]) * (p4[2] - p3[2]) - (p2[2] - p1[2]) * (p4[1] - p3[1])
  IN IF det # 0 THEN Abs(det) ELSE factorial(MaxGrid)

\* the segments p1p2 and p3p4 have a point in common: p1 + (k/n)(p2 - p1) =
\* p3 + (m/n)(p4 - p3) for some k, m in 0..n
commonPoint(p1, p2, p3, p4) ==
  LET n == denominator(p1, p2, p3, p4)
  IN \E k \in 0..n, m \in 0..n :
       /\ n * p1[1] + k * (p2[1] - p1[1]) = n * p3[1] + m * (p4[1] - p3[1])
       /\ n * p1[2] + k * (p2[2] - p1[2]) = n * p3[2] + m * (p4[2] - p3[2])

\* C26: segmentsIntersect is true exactly for the segments of the grid that
\* have a common point (a proper crossing, a shared end point or a colinear
\* overlap), and the answer is the same with the two segments exchanged
C26_SegmentsIntersect ==
  \A impl \in DOMAIN callResult :
    "p1" \in DOMAIN callArgs =>
      LET a == callArgs
          r == callResult[impl]
      IN /\ r.fwd = commonPoint(a.p1, a.p2, a.p3, a.p4)
         /\ r.rev = r.fwd

\* answered for a proper crossing, for a shared end point, for a colinear
\* overlap, or for segments apart
C26_Witness ==
  /\ DOMAIN callResult = {"main", "staged"}
  /\ "p1" \in DOMAIN callArgs
  /\ callArgs = [p1 |-> <<0, 0>>, p2 |-> <<2, 2>>, p3 |-> <<0, 2>>, p4 |-> <<2, 0>>]
  /\ callResult["main"].fwd

\* the tolerance simplify was called with for tier t by version v of addRun
toleranceOf(v, t) ==
  IF v = "cur"
  THEN CASE t = "high" -> TolHigh [] t = "mid" -> TolMid [] t = "low" -> TolLow
  ELSE CASE t = "high" -> OldTolHigh [] t = "mid" -> OldTolMid [] t = "low" -> OldTolLow

\* out is a subsequence of inp: its points are points of inp at increasing
\* positions
RECURSIVE isSubsequence(_, _)
isSubsequence(out, inp) ==
  IF out = <<>> THEN TRUE
  ELSE IF inp = <<>> THEN FALSE
  ELSE IF Head(out) = Head(inp) THEN isSubsequence(Tail(out), Tail(inp))
  ELSE isSubsequence(out, Tail(inp))

\* the squared distance of two points
dist2(a, b) == (a[1] - b[1]) * (a[1] - b[1]) + (a[2] - b[2]) * (a[2] - b[2])

withinBbox(c, bbox) ==
  bbox[1] <= c[1] /\ c[1] <= bbox[3] /\ bbox[2] <= c[2] /\ c[2] <= bbox[4]

simplifiedWell(out, inp, tolerance) ==
  /\ isSubsequence(out, inp)
  /\ Len(out) >= 2
  /\ out[1] = inp[1]
  /\ out[Len(out)] = inp[Len(inp)]
  /\ \A i \in 2..(Len(out) - 1) : dist2(out[i], out[i - 1]) > tolerance * tolerance
  /\ (\A i \in 1..Len(inp) : inp[i] = inp[1]) => out = <<inp[1], inp[Len(inp)]>>
  /\ \A i \in 1..Len(out) : withinBbox(out[i], getPolygonBbox(inp))

\* C27: for every track of at least 2 points and every tolerance of addRun,
\* simplify returns a subsequence of the track with at least 2 points, the
\* first and last being those of the track, each kept inner point farther
\* than the tolerance from the point kept before it; a track of identical
\* points gives [first, last]; every point of every tier is within the bbox
C27_SimplifyShape ==
  Len(simpIn) >= 2 =>
    \A v \in DOMAIN simpOut : \A t \in {"high", "mid", "low"} :
      simplifiedWell(simpOut[v][t], simpIn, toleranceOf(v, t))

\* both versions of addRun have simplified a track of which the high tier
\* keeps an inner point and drops another
C27_Witness ==
  /\ DOMAIN simpOut = {"cur", "old"}
  /\ Len(simpIn) >= 4
  /\ Len(simpOut["cur"]["high"]) >= 3
  /\ Len(simpOut["cur"]["high"]) < Len(simpIn)

\* C30: for an id of the filter whose bbox meets the viewport, the
\* id-filtered query returns a feature exactly when the viewport query
\* does, taken from the same tier (the same fallback geometry)
C30_FilterMatchesViewport ==
  lodOut # NoOut => lodOut["filterRunsByIds"] = lodOut["getRunsForBounds"]

\* the geometry the polygon tests of implementation impl look at
testedGeometry(impl, track) ==
  IF impl = "staged" THEN buildGeomsOld(track)["full"] ELSE buildGeomsOld(track)["high"]

\* the four tests for a track and a polygon, each on its own
centreTest(track, P) == centerInPolygon(getPolygonBbox(track), P)

cornerTest(track, P) ==
  \E k \in 1..4 : pointInPolygon(corners(getPolygonBbox(track))[k], P)

vertexTest(geom, P) == \E k \in 1..Len(geom) : pointInPolygon(geom[k], P)

crossingTest(geom, P) ==
  \E i \in 2..Len(geom), j \in 2..Len(P) :
    segmentsIntersect(geom[i - 1], geom[i], P[j - 1], P[j])

\* C25: a candidate run is included by getRunsInPolygon if and only if at
\* least one of the four tests (bbox centre, bbox corner, vertex of the
\* geometry, segment crossing) is true, whatever the order of evaluation
C25_AnyTestSuffices ==
  \A impl \in DOMAIN callResult :
    ("track" \in DOMAIN callArgs /\ callResult[impl].candidate) =>
      LET g == testedGeometry(impl, callArgs.track)
          P == callArgs.polygon
      IN callResult[impl].included =
           (\/ centreTest(callArgs.track, P)
            \/ cornerTest(callArgs.track, P)
            \/ vertexTest(g, P)
            \/ crossingTest(g, P))

(***************************************************************************)
(* Properties of the lasso selection of the web page                       *)
(***************************************************************************)
\* the polygon a drag along the path encloses
closedRing(path) == Append(path, path[1])

\* a drag along at least three positions around at least one activity has
\* just ended with the mouse up
DragEnded ==
  /\ mouse.lastEvent = "mouseup"
  /\ Len(mouse.path) >= 3
  /\ apiRunsInArea(closedRing(mouse.path)) # {}

\* C23: a drag of the mouse on the map along at least three positions
\* (mouse down, moves, mouse up) around activities ends with the side panel
\* open and at least one run card listed
C23_DragOpensPanel == [](DragEnded => <>(panelOpen /\ panelCards # {}))

\* the ids of the activities the layer shows under the filter
shownIds(f) ==
  CASE f.kind = "null" -> DOMAIN AreaRuns
    [] f.kind = "==" -> {id \in DOMAIN AreaRuns : id = f.id}
    [] f.kind = "in" -> f.ids \cap DOMAIN AreaRuns

\* C24: right after clearSelection selectedRuns is empty, the side panel is
\* closed and the layer has no filter; while the side panel is open the
\* layer shows exactly the activities of selectedRuns, none when it is empty
C24_SelectionShown ==
  /\ mouse.lastEvent = "clearSelection" =>
       selectedRuns = {} /\ ~panelOpen /\ layerFilter = NoFilter
  /\ panelOpen => shownIds(layerFilter) = selectedRuns

(***************************************************************************)
(* Soundness of the viewport query                                         *)
(***************************************************************************)
\* the coordinate sequences a stored run holds in its tiers
geomsOf(r) == {r.geoms[t] : t \in DOMAIN r.geoms}

\* the feature shows a stored activity whose stored bbox intersects bbox
fromRunIn(f, bbox) ==
  \E k \in 1..Len(userRuns) :
    /\ userRuns[k].id = f.id
    /\ f.geometry \in geomsOf(userRuns[k])
    /\ bboxIntersects(userRuns[k].bbox, bbox)

\* C31: every feature a viewport query emits belongs to a stored activity
\* whose stored bbox intersects the query bbox (so a query bbox disjoint
\* from every stored bbox yields no feature), and a query before loadData
\* has completed yields an empty FeatureCollection
C31_ViewportSound ==
  \A bbox \in IndexBoxes, z \in IndexZooms :
    LET fs == getRunsForBounds(bbox, z)
    IN /\ \A i \in 1..Len(fs) : fromRunIn(fs[i], bbox)
       /\ ~loaded => fs = <<>>

(***************************************************************************)
(* Settlement of the promises of _queryWorker                              *)
(***************************************************************************)
\* C32: every promise returned by _queryWorker is eventually resolved when
\* messages are delivered fairly, also when the query reaches the worker
\* before its load has completed and when another query is issued before
\* this one has completed
C32_EveryPromiseResolves ==
  \A p \in 1..MaxQueries : [](p < nextPromise => <>(p \in DOMAIN resolved))

(***************************************************************************)
(* Overlapping queries of different kinds                                  *)
(***************************************************************************)
\* the main thread handles the oldest message of the worker
MessageHandled ==
  /\ toMain # <<>>
  /\ toMain' = Tail(toMain)

\* C33: a viewport query and an id-filtered query that overlap in time do
\* not interfere: a chunk, a progress value or a 'complete' that the worker
\* produced for a request of one kind is never applied to (added to the
\* features of, reported to the callback of, used to resolve) a pending
\* request of the other kind
C33_KindsDoNotInterfere ==
  [][(MessageHandled /\ pending # 0 /\ Head(toMain).type # "ready")
       => (Head(toMain).req # pending
             => Head(toMain).filtered = (progress # 0))]_vars

(***************************************************************************)
(* 'add' messages that race with the worker's load                         *)
(***************************************************************************)
\* C34: once load() has completed, every activity received in an 'add'
\* message is in runs and in tree, whatever the order of the steps of load
\* and the 'add' messages was: no handler of an 'add' has thrown (wErrors
\* counts the 'add' messages whose handler did) and every id of runs has an
\* entry in tree
C34_NoAddLost ==
  wLoad = "ready" =>
    /\ wErrors = 0
    /\ \A id \in DOMAIN runs : \E i \in 1..Len(tree) : tree[i].id = id

(***************************************************************************)
(* The display when no request is in flight                                *)
(***************************************************************************)
\* the displayed data is the data of a cache entry of key k whose fetched
\* bounds contain the current viewport
shownFrom(k) ==
  /\ k \in DOMAIN caches
  /\ displayed = caches[k].data
  /\ withinBounds(caches[k].bounds, view)

\* C35: when every request succeeds, whenever no viewport request is in
\* flight the displayed data was produced by a query whose fetched bounds
\* contain the current viewport: after a response was applied the query is
\* the one it answered (stored under lastZoom), after a move served from
\* the cache it is the query of a stored entry
C35_DisplayCoversView ==
  inflight = {} =>
    /\ lastOp.op = "applied" => shownFrom(lastZoom)
    /\ lastOp.op = "hit" => \E k \in DOMAIN caches : shownFrom(k)

(***************************************************************************)
(* Visibility of an inserted activity                                      *)
(***************************************************************************)
\* the moveend handler runs in the step
Resolved == moves' = moves + 1

\* the handler has issued a request in the step
Refetched == \E r \in inflight' : r.id = moves'

\* C36: an activity of the store becomes visible: a viewport resolve whose
\* viewport intersects the activity's bbox either serves data containing
\* the activity or issues a refetch; it never keeps serving a cached result
\* computed before the insertion without refetching
C36_InsertedBecomesVisible ==
  [][Resolved =>
       \A a \in serverRuns :
         bboxIntersects(a.bbox, boundsBbox(view'))
           => (a.id \in displayed' \/ Refetched)]_vars

(***************************************************************************)
(* Frame of a successful upload                                            *)
(***************************************************************************)
\* a step of the successful path of the addRun call c: its sync has
\* succeeded, or its reload has completed
SuccessStep(c) ==
  /\ c \in adding
  /\ \/ c.at = "updateServerData" /\ [c EXCEPT !.at = "reloadPMTiles"] \in adding'
     \/ c.at = "reloadPMTiles" /\ adding' = adding \ {c}

\* the runs of the sequence other than the run with the id
others(s, id) == SelectSeq(s, LAMBDA r : r.id # id)

\* C37: a successful upload affects only the uploaded run: no other locally
\* held run is removed from the in-memory store or from the spatial index,
\* and the persisted copy of the other runs is not discarded
C37_UploadFrame ==
  [][\A c \in adding :
       SuccessStep(c) =>
         /\ others(userRuns', c.id) = others(userRuns, c.id)
         /\ others(spatialIndex', c.id) = others(spatialIndex, c.id)
         /\ others(localStorage', c.id) = others(localStorage, c.id)]_vars

(***************************************************************************)
(* The selection and the cards of the side panel                           *)
(***************************************************************************)
\* C38: while the side panel is open, every run of selectedRuns is listed
\* in the panel (the cards of the most recent lasso query), after any
\* sequence of lasso draws, checkbox toggles, select-all, deselect-all and
\* clears
C38_SelectionListed == panelOpen => selectedRuns \subseteq panelCards

(***************************************************************************)
(* Independence of the lasso result from the way the ring is written       *)
(***************************************************************************)
\* C39: getRunsInPolygon returns the same activities whether the polygon
\* coordinate list repeats its first point at the end or not: the edge from
\* the last vertex back to the first is part of the polygon for the point
\* test and for the segment test
C39_RingClosureIrrelevant ==
  ("ring" \in DOMAIN callArgs /\ {"open", "closed"} \subseteq DOMAIN callResult)
    => callResult["open"] = callResult["closed"]

(***************************************************************************)
(* Status of the HTTP range server plugin                                  *)
(***************************************************************************)
\* the server socket is open and the accept loop on it is alive
Serving == serverSocket.open /\ serverSocket.n \in acceptLoops

\* C40: after any sequence of startServer, stopServer and accept-loop
\* failures, getServerStatus reports running = true only while the server
\* socket is open and the accept loop is alive; startServer called while
\* running changes nothing and reports success; stopServer called while
\* not running changes nothing
C40_StatusTruthful ==
  [][/\ (lastCall'.call = "getServerStatus" /\ lastCall'.running) => Serving'
     /\ (lastCall'.call = "startServer" /\ isRunning)
          => (lastCall'.success /\ UNCHANGED <<isRunning, serverSocket, acceptLoops>>)
     /\ (lastCall'.call = "stopServer" /\ ~isRunning)
          => UNCHANGED <<isRunning, serverSocket, acceptLoops>>]_vars

====
